---- MODULE Spec2Model ----
(***************************************************************************)
(* A model of go-indexeddb's transaction-lifetime recovery: the one-shot   *)
(* retry wrapper idb.RetryTxn, the durable transaction of package durable  *)
(* (DurableTransaction / DurableObjectStore), the blocking wait            *)
(* Request.Await and the cursor loop of CursorRequest.Iter, over an        *)
(* abstract host database engine.                                          *)
(*                                                                         *)
(* Go code runs without interruption between two suspension points; the    *)
(* host (the event loop) acts only while the Go caller is suspended: in an *)
(* Await, inside a unit of work that waits for something else, or between  *)
(* two calls of the caller.                                                *)
(***************************************************************************)
EXTENDS Integers, Sequences, FiniteSets, TLC

(***************************************************************************)
(* Bounds of the model.                                                    *)
(***************************************************************************)
\* Host transactions that one behaviour may open (db.Transaction succeeds
\* only while fewer have been opened).
MaxTxns == 2
\* Requests that may be pending with nobody waiting for them (an Await
\* returns without the outcome of its request only while fewer are).
MaxOrphans == 1

(***************************************************************************)
(* Values.                                                                 *)
(***************************************************************************)
StoreNames == {"items", "logs"}
Keys == {"k1"}
Vals == {"v1", "v2"}
\* safejs.Undefined(): what Get yields for a key with no record.
Undef == "undefined"
\* The zero safejs.Value a wrapper returns when its callback never assigned.
ZeroVal == "zero"
Modes == {"readonly", "readwrite"}
\* The store-name lists a caller passes at construction (the empty list is
\* the configuration error).
NameLists == {<< >>, <<"items">>, <<"logs", "items">>}

Range(s) == {s[i] : i \in DOMAIN s}

(***************************************************************************)
(* Errors.  A Go error is nil or carries a message; a message is a         *)
(* sequence of words, so that a suffix test is a real computation.         *)
(***************************************************************************)
Nil == [nil |-> TRUE, msg |-> << >>]
Err(m) == [nil |-> FALSE, msg |-> m]

TxnFinishedPhrase == <<"The", "transaction", "has", "finished.">>
DBClosingPhrase == <<"The", "database", "connection", "is", "closing.">>

\* What the host throws from a call on a transaction that has finished.
ErrTxnFinished == Err(<<"InvalidStateError:">> \o TxnFinishedPhrase)
\* What the host throws from db.transaction() on a closing connection.
ErrDBClosing == Err(<<"InvalidStateError:">> \o DBClosingPhrase)
\* A transaction that is alive but not accepting calls (README: "transaction
\* is not active").
ErrNotActive == Err(<<"The", "transaction", "is", "not", "active.">>)
ErrConstraint == Err(<<"ConstraintError:", "Key", "already", "exists">>)
ErrReadOnly == Err(<<"ReadOnlyError:", "The", "transaction", "is", "read-only.">>)
ErrNotFound == Err(<<"NotFoundError:", "object", "store", "not", "found">>)
ErrSome == Err(<<"some", "error">>)
\* context.Canceled, what ctx.Err() is once the context is cancelled.
ErrCanceled == Err(<<"context", "canceled">>)
\* The error addEventListener may fail with.
ErrListen == Err(<<"TypeError:", "addEventListener">>)
ErrNoStores == Err(<<"transaction", "must", "have", "at", "least", "one", "object", "store">>)

\* strings.HasSuffix
HasSuffix(s, suffix) ==
    /\ Len(s) >= Len(suffix)
    /\ SubSeq(s, Len(s) - Len(suffix) + 1, Len(s)) = suffix

\* IsTxnFinishedErr without the case of the closing connection.
IsTxnFinishedErr_NoClosing(err) ==
    IF err.nil THEN FALSE
    ELSE IF HasSuffix(err.msg, TxnFinishedPhrase) THEN TRUE
    ELSE FALSE

\* idb.IsTxnFinishedErr
IsTxnFinishedErr(err) ==
    IF err.nil THEN FALSE
    ELSE IF HasSuffix(err.msg, TxnFinishedPhrase) THEN TRUE
    ELSE IF HasSuffix(err.msg, DBClosingPhrase) THEN TRUE
    ELSE FALSE

(***************************************************************************)
(* State.                                                                  *)
(***************************************************************************)
VARIABLES
    \* ---- host database engine
    db,         \* [store -> [key -> value or Undef]]: the records, with the
                \* writes of the transactions so far applied
    txns,       \* [1..MaxTxns -> transaction record]
    ntx,        \* number of transactions opened so far
    req,        \* the Pending Operation the caller awaits, or NoReq
    \* ---- DurableTransaction
    dtMode,     \* DurableTransaction.txnMode
    dtNames,    \* DurableTransaction.objectStoreNames
    dtTxn,      \* DurableTransaction.txn: a host transaction, or 0 for nil
    dtStores,   \* DurableTransaction.objectStores: name -> the transaction
                \* its wrapper's store handle (DurableObjectStore.store) is of
    \* ---- RetryTxn call in progress
    rt,         \* its frame: mode, names, unit of work, current transaction
    \* ---- the caller
    pc,         \* where the caller's single goroutine is
    cur,        \* the call in progress
    ret,        \* what the last finished call returned
    \* ---- observation (history) variables
    ref,        \* the records a single never-interrupted transaction holds
                \* after the same Durable operations
    refRet,     \* what that transaction returns for the call in progress
    faults,     \* TRUE once the host injected a failure that is not a
                \* recoverable-finish one
    mixed,      \* TRUE once the caller called Abort, which may change the
                \* records beside the Durable data operations
    stat,       \* counters of the call in progress
    \* ---- one Request and the Await on it (package idb, request.go)
    rq,         \* the host's request: readyState, result, error
    lsn,        \* the listeners registered on it: [success, error -> BOOLEAN]
    actx,       \* which contexts are cancelled: parent (the caller's), await
                \* (Await line 105), listen (Listen line 164), inner (listen
                \* line 176), each a child of the one before
    resultCh,   \* Await's resultCh, a channel of capacity 1
    errCh,      \* Await's errCh, a channel of capacity 1
    aPc,        \* where the goroutine that calls Await is
    aRet,       \* what Await returned
    notes,      \* the notifications the listeners of this Await received
    \* ---- one cursor request and the Iter on it (request.go, cursor.go)
    hcur,       \* the host's cursor: the records of its range, its direction,
                \* its position, whether it is moving and where to
    iPc,        \* where the goroutine that calls Iter is
    iCalls,     \* the invocations of the callback so far, in order
    iRet,       \* what Iter returned
    \* ---- one call of IsTxnFinishedErr (retry.go)
    cErr,       \* the error it is called with
    cOut,       \* whether it has returned, and what
    \* ---- one cursor opened with a direction and asked for it (cursor.go)
    dIn,        \* the CursorDirection the cursor is opened with
    dOut,       \* whether Direction has returned, the host's string and
                \* the CursorDirection returned
    \* ---- the listeners of the Awaits on one request (request.go)
    adds,       \* how many listeners of either kind the Await in progress
                \* has registered
    stale,      \* the listeners earlier Awaits on the request registered
                \* and have not removed yet
    \* ---- several goroutines that work through one DurableTransaction
    gor,        \* [1..MaxGor -> what the goroutine is at]
    running,    \* the goroutine that runs, 0 when all are suspended
    \* ---- host database engine, again
    orphans     \* the requests the host accepted and has not completed
                \* whose Await returned without their outcome (nobody waits
                \* for them), oldest first: transaction and operation

mainVars == <<db, txns, ntx, req, dtMode, dtNames, dtTxn, dtStores, rt, pc,
              cur, ret, ref, refRet, faults, mixed, stat>>
awVars == <<rq, lsn, actx, resultCh, errCh, aPc, aRet, notes>>
itVars == <<hcur, iPc, iCalls, iRet>>
fnVars == <<cErr, cOut, dIn, dOut>>
\* The variables of the parts that stand alone.
lsVars == <<adds, stale>>
coVars == <<gor, running>>
laterVars == <<fnVars, lsVars, coVars, orphans>>
vars == <<mainVars, awVars, itVars, laterVars>>

hostVars == <<db, txns, ntx, req>>
dtVars == <<dtMode, dtNames, dtTxn, dtStores>>
obsVars == <<ref, refRet, faults, mixed, stat>>

EmptyStore == [k \in Keys |-> Undef]
EmptyDB == [s \in StoreNames |-> EmptyStore]

NoTxn == [state |-> "none", mode |-> "none", stores |-> << >>,
          base |-> EmptyDB]
\* A finished transaction keeps nothing but how it ended.
Finished(how) == [state |-> how, mode |-> "none", stores |-> << >>,
                  base |-> EmptyDB]
NoReq == [txn |-> 0, state |-> "none"]
NoCall == [kind |-> "none"]
\* at: the place in the code the call returned from.
NoRet == [kind |-> "none", val |-> ZeroVal, err |-> Nil, did |-> FALSE,
          at |-> "none"]
\* db0: the records when the call began.
\* cancelled: the context the call was given is cancelled; ntxAt: the
\* transactions opened so far when it was.
NoRt == [mode |-> "none", names |-> << >>, fn |-> "none", txn |-> 0,
         db0 |-> EmptyDB, cancelled |-> FALSE, ntxAt |-> 0]
\* opens: the transactions the call opened, with the mode and names it
\* passed to db.Transaction; calls: host data calls issued; recov: recoverable
\* failures met; fnCalls: invocations of the unit of work; commits, aborts:
\* the transactions the call called Commit, Abort on, in order; hostErr,
\* fnErr, commitErr, abortErr: the error the last host data call or the
\* await of it (in a Durable call: the callback, whatever it did), the last
\* invocation of the unit of work, the last Commit, the last Abort reported;
\* txn0: the live transaction of the scope when the call began, 0 for none.
NoStat == [opens |-> << >>, calls |-> 0, recov |-> 0, fnCalls |-> 0,
           commits |-> << >>, aborts |-> << >>, hostErr |-> Nil,
           fnErr |-> Nil, commitErr |-> Nil, abortErr |-> Nil, txn0 |-> 0]

(***************************************************************************)
(* The host database engine.                                               *)
(***************************************************************************)
\* The methods of DurableObjectStore (part_003), by what they hand back
\* beside the error: nothing, a safejs.Value, a uint, a slice of keys, a
\* cursor.
WriteKinds == {"Add", "AddKey", "Put", "PutKey", "Delete", "Clear"}
ValueKinds == {"Get", "GetKey"}
CountKinds == {"Count", "CountKey", "CountRange"}
ListKinds == {"GetAllKeys", "GetAllKeysRange"}
CursorKinds == {"OpenCursor", "OpenCursorKey", "OpenCursorRange",
                "OpenKeyCursor", "OpenKeyCursorKey", "OpenKeyCursorRange"}
DataKinds ==
    WriteKinds \cup ValueKinds \cup CountKinds \cup ListKinds \cup CursorKinds
\* The methods that take a key, or a key range (the range that holds the one
\* key k stands for itself as k).
KeyedKinds == {"AddKey", "PutKey", "Delete", "Get", "GetKey", "CountKey",
               "CountRange", "GetAllKeysRange", "OpenCursorKey",
               "OpenCursorRange", "OpenKeyCursorKey", "OpenKeyCursorRange"}
\* The methods that take a value to store.
ValuedKinds == {"Add", "AddKey", "Put", "PutKey"}
NoKey == "none"

\* Every operation a caller may ask of the wrapper of store s.  A cursor is
\* opened in the direction CursorNext, and GetAllKeysRange is asked for
\* every key (maxCount 0).
AllOps(s) ==
    {[kind |-> kind, store |-> s,
      key |-> IF kind \in KeyedKinds THEN k ELSE NoKey,
      val |-> IF kind \in ValuedKinds THEN v ELSE Undef] :
        kind \in DataKinds, k \in Keys, v \in Vals}
\* The operations the caller of the main specification asks for.
DataOps(s) ==
    {op \in AllOps(s) :
        \/ op.kind \in {"AddKey", "PutKey", "Get", "Delete", "Clear", "Count"}
        \/ op.kind \in {"Add", "Put"} /\ op.val = "v1"}
IsWrite(kind) == kind \in WriteKinds

\* What a call hands back beside its error when it fails: the zero value of
\* the variable the callback assigns on success (part_003 lines 56, 85, 192, 228).
ZeroUint == "0"
NilSlice == "nil"
NilCursor == "nil cursor"
ZeroOf(kind) ==
    IF kind \in CountKinds THEN ZeroUint
    ELSE IF kind \in ListKinds THEN NilSlice
    ELSE IF kind \in CursorKinds THEN NilCursor
    ELSE ZeroVal

\* The key the host derives for a value stored without one: the stores have
\* an in-line key, and every value carries the one key there is.
KeyOf(v) == CHOOSE k \in Keys : TRUE

\* The keys among K that have a record in store s of d.
Has(d, s, K) == {k \in K : d[s][k] # Undef}
\* A uint, a slice of keys and a cursor as the caller sees them.
Numerals == <<"0", "1">>
UintVal(n) == Numerals[n + 1]
\* ArrayRequest.Await (request.go lines 317-328) appends the elements to a
\* nil slice, which stays nil when there is none.
SliceVal(K) == IF K = {} THEN NilSlice ELSE "[k1]"
\* The host's result is null when no record is in the range.  A key cursor
\* is awaited with AwaitCursor (request.go lines 89-98, 397-399), which
\* returns no cursor for null; a cursor with values is wrapped whatever the
\* result is (lines 432-438).
KeyCursorKinds == {"OpenKeyCursor", "OpenKeyCursorKey", "OpenKeyCursorRange"}
NullCursor == "cursor of null"
CursorVal(kind, K) ==
    IF K # {} THEN "cursor"
    ELSE IF kind \in KeyCursorKinds THEN NilCursor
    ELSE NullCursor

\* What an operation does to the records d when the host executes it.
HostEffect(d, op) ==
    LET s == op.store
        k == IF op.kind \in {"Add", "Put"} THEN KeyOf(op.val) ELSE op.key
        set(v) == [d EXCEPT ![s][k] = v]
        inRange == IF op.kind \in KeyedKinds THEN {op.key} ELSE Keys
    IN CASE op.kind \in {"AddKey", "Add"} ->
              IF d[s][k] # Undef
              THEN [db |-> d, val |-> ZeroVal, err |-> ErrConstraint]
              ELSE [db |-> set(op.val), val |-> k, err |-> Nil]
         [] op.kind \in {"PutKey", "Put"} ->
              [db |-> set(op.val), val |-> k, err |-> Nil]
         [] op.kind = "Delete" -> [db |-> set(Undef), val |-> Undef, err |-> Nil]
         [] op.kind = "Clear" ->
              [db |-> [d EXCEPT ![s] = EmptyStore], val |-> Undef, err |-> Nil]
         [] op.kind = "Get" -> [db |-> d, val |-> d[s][k], err |-> Nil]
         [] op.kind = "GetKey" ->
              [db |-> d, val |-> IF d[s][k] # Undef THEN k ELSE Undef,
               err |-> Nil]
         [] op.kind \in CountKinds ->
              [db |-> d, val |-> UintVal(Cardinality(Has(d, s, inRange))),
               err |-> Nil]
         [] op.kind \in ListKinds ->
              [db |-> d, val |-> SliceVal(Has(d, s, inRange)), err |-> Nil]
         [] op.kind \in CursorKinds ->
              [db |-> d, val |-> CursorVal(op.kind, Has(d, s, inRange)),
               err |-> Nil]

\* The error a call on a store handle of transaction h throws at once, or Nil
\* when the host accepts the call and hands out a Pending Operation.
HostCallErr(h, op) ==
    IF txns[h].state # "active" THEN ErrTxnFinished
    ELSE IF op.store \notin Range(txns[h].stores) THEN ErrNotFound
    ELSE IF IsWrite(op.kind) /\ txns[h].mode = "readonly" THEN ErrReadOnly
    ELSE Nil

\* Failures the host may report for an accepted request, whatever it asks.
ReqFaults == {ErrSome, ErrTxnFinished}

\* The ways an accepted request may complete: executed, or failed with an
\* injected error and no effect.  fault: the host misbehaved in a way that is
\* not a recoverable finish.
HostOutcomes(op) ==
    {[db |-> HostEffect(db, op).db, val |-> HostEffect(db, op).val,
      err |-> HostEffect(db, op).err, fault |-> FALSE]}
    \cup {[db |-> db, val |-> ZeroVal, err |-> e,
           fault |-> ~IsTxnFinishedErr(e)] : e \in ReqFaults}

\* The errors a unit of work or a callback of the caller may return.
FnErrs == {Nil, ErrTxnFinished, ErrDBClosing, ErrSome}

\* Errors db.Transaction may return.
OpenFaults == {ErrDBClosing, ErrSome}

NewTxnRec(mode, names) ==
    [state |-> "active", mode |-> mode, stores |-> names, base |-> db]

\* What the record of a call notes of transaction t, just opened in ts.
Opened(t, ts) == [txn |-> t, mode |-> ts[t].mode, names |-> ts[t].stores]

\* commit(transaction): the error it returns and the transactions after it.
\* inject: the host refuses the commit of a live transaction.
HostCommit(t, inject) ==
    IF txns[t].state # "active"
    THEN [err |-> ErrTxnFinished, txns |-> txns, db |-> db]
    ELSE IF inject
    THEN [err |-> ErrNotActive, txns |-> txns, db |-> db]
    ELSE [err |-> Nil, db |-> db,
          txns |-> [txns EXCEPT ![t] = Finished("committed")]]

\* abort(transaction): rolls the records back to what they were when the
\* transaction was opened.
HostAbort(t, inject) ==
    IF txns[t].state # "active"
    THEN [err |-> ErrTxnFinished, txns |-> txns, db |-> db]
    ELSE IF inject
    THEN [err |-> ErrSome, txns |-> txns, db |-> db]
    ELSE [err |-> Nil, db |-> txns[t].base,
          txns |-> [txns EXCEPT ![t] = Finished("aborted")]]

\* The caller's goroutine is suspended: the host event loop may run.
Suspended == pc \in {"idle", "d_await", "r_await", "r_fnwait"}

\* The errors Await returns while its request is still pending: ctx.Err() of
\* a context that is done (request.go lines 127-128), the error of Listen
\* (lines 118-120).
AwaitLeaves == {ErrCanceled, ErrListen}

\* The transactions of the requests nobody waits for.
OrphanTxns == {orphans[i].txn : i \in DOMAIN orphans}

\* While the Go side is suspended the host completes the oldest request
\* nobody waits for: it executes it, or (fail) fails it with no effect.  A
\* request of a transaction that was committed meanwhile is still executed;
\* one of an aborted transaction fails.
H_Orphan(fail) ==
    /\ Suspended
    /\ running = 0
    /\ orphans # << >>
    /\ LET o == Head(orphans)
       IN /\ ~fail => txns[o.txn].state \in {"active", "committed"}
          /\ db' = IF fail THEN db ELSE HostEffect(db, o.op).db
    /\ orphans' = Tail(orphans)
    /\ UNCHANGED <<txns, ntx, req, dtVars, rt, pc, cur, ret, obsVars>>
    /\ UNCHANGED <<awVars, itVars, fnVars, lsVars, coVars>>

\* The host finishes (commits) a transaction that has no request outstanding.
AutoFinish(t) ==
    /\ Suspended
    /\ txns[t].state = "active"
    /\ req.txn # t
    /\ t \notin OrphanTxns
    /\ txns' = [txns EXCEPT ![t] = Finished("committed")]
    /\ UNCHANGED <<db, ntx, req, dtVars, rt, pc, cur, ret, obsVars>>
    /\ UNCHANGED <<awVars, itVars, laterVars>>

(***************************************************************************)
(* package durable: DurableTransaction and DurableObjectStore.             *)
(***************************************************************************)
\* The reference run is followed while nothing but recoverable finishes has
\* disturbed the Durable data operations (f: it is disturbed now).
NoRefRet == [val |-> ZeroVal, err |-> Nil]
RefAfter(f) ==
    /\ ref' = IF f THEN EmptyDB ELSE ref
    /\ refRet' = IF f THEN NoRefRet ELSE refRet

\* A call returns to the caller.
Return(kind, val, err, did, at) ==
    /\ ret' = [kind |-> kind, val |-> val, err |-> err, did |-> did,
               at |-> at]
    /\ pc' = "returned"

\* The outcome of the calls of txn.ObjectStore in one rebinding loop
\* (ensureTransaction lines 113-119, which visits the wrappers in the order of
\* a map iteration, that is in any order): none fails, or the call for the
\* wrapper fail does, after the wrappers done were rebound.
NoLookupFault == [fail |-> "none", done |-> {}]
LookupFaults(names) ==
    UNION {{[fail |-> f, done |-> d] : d \in SUBSET (names \ {f})} :
           f \in names}

\* What ensureTransaction returns when it had nothing to do or could not open
\* a transaction.
ensureTransaction_Same(err) ==
    [err |-> err, txn |-> dtTxn, txns |-> txns, ntx |-> ntx,
     stores |-> dtStores, opened |-> FALSE]

\* ensureTransaction without lines 113-119: the wrappers keep their handles.
ensureTransaction_NoRebind(inject, lookup) ==
    IF dtTxn # 0 THEN ensureTransaction_Same(Nil)
    ELSE IF ~inject.nil THEN ensureTransaction_Same(inject)
    ELSE [err |-> Nil, txn |-> ntx + 1,
          txns |-> [txns EXCEPT ![ntx + 1] = NewTxnRec(dtMode, dtNames)],
          ntx |-> ntx + 1, stores |-> dtStores, opened |-> TRUE]

\* ensureTransaction that makes new wrappers for the new transaction.
ensureTransaction_NewWrappers(inject, lookup) ==
    IF dtTxn # 0 THEN ensureTransaction_Same(Nil)
    ELSE IF ~inject.nil THEN ensureTransaction_Same(inject)
    ELSE [err |-> Nil, txn |-> ntx + 1,
          txns |-> [txns EXCEPT ![ntx + 1] = NewTxnRec(dtMode, dtNames)],
          ntx |-> ntx + 1,
          stores |-> [n \in DOMAIN dtStores |->
                        [w |-> dtStores[n].w + Len(dtNames),
                         store |-> ntx + 1]],
          opened |-> TRUE]

\* ensureTransaction lines 111-121: db.Transaction has returned a new
\* transaction.
ensureTransaction_Open(lookup) ==
    LET t == ntx + 1
        rebound == IF lookup.fail = "none" THEN DOMAIN dtStores
                   ELSE lookup.done
    IN [err |-> IF lookup.fail = "none" THEN Nil ELSE ErrNotFound,
        txn |-> t,
        txns |-> [txns EXCEPT ![t] = NewTxnRec(dtMode, dtNames)],
        ntx |-> t,
        stores |-> [n \in DOMAIN dtStores |->
                      IF n \in rebound
                      THEN [dtStores[n] EXCEPT !.store = t]
                      ELSE dtStores[n]],
        opened |-> TRUE]

\* ensureTransaction without lines 103-105: it opens a transaction whether
\* one is live or not.
ensureTransaction_Always(inject, lookup) ==
    IF ~inject.nil THEN ensureTransaction_Same(inject)
    ELSE ensureTransaction_Open(lookup)

\* ensureTransaction that returns nil when db.Transaction fails.
ensureTransaction_Swallow(inject, lookup) ==
    IF dtTxn # 0 \/ ~inject.nil THEN ensureTransaction_Same(Nil)
    ELSE ensureTransaction_Open(lookup)

\* DurableTransaction.ensureTransaction, as a function of the outcome of
\* db.Transaction (inject: the error it returns, Nil for none) and of the
\* calls of txn.ObjectStore (lookup): the error returned and the fields after
\* it.  The new transaction is stored in t.txn (line 111) before the loop
\* rebinds the wrappers, each in place.
ensureTransaction(inject, lookup) ==
    IF dtTxn # 0 THEN ensureTransaction_Same(Nil)
    ELSE IF ~inject.nil THEN ensureTransaction_Same(inject)
    ELSE ensureTransaction_Open(lookup)

\* The wrapper NewDurableTransaction makes for the name at place i of its
\* list (lines 46-50): the i-th object it allocates.
NewWrapper(i, txn) == [w |-> i, store |-> txn]
NewWrappers(txn) ==
    [n \in Range(dtNames) |->
       NewWrapper(CHOOSE i \in 1..Len(dtNames) : dtNames[i] = n, txn)]

\* NewDurableTransaction lines 30-53: the struct is made, the first
\* transaction ensured (there are no wrappers to rebind yet) and a wrapper
\* made for each name.  A failure returns a nil scope: its fields stay as
\* they were, unset.
NewDurableTransaction_Make(inject, lookup) ==
    LET e == ensureTransaction(inject, NoLookupFault)
        failed(err, at) ==
            /\ ret' = [kind |-> "New", val |-> ZeroVal, err |-> err,
                       did |-> FALSE, at |-> at]
            /\ pc' = "failed"
            /\ faults' = TRUE
            /\ UNCHANGED <<dtTxn, dtStores>>
    IN /\ inject.nil => ntx < MaxTxns
       /\ lookup # NoLookupFault =>
             /\ inject.nil
             /\ lookup \in LookupFaults(Range(dtNames))
             /\ lookup.done = {}
       /\ txns' = e.txns
       /\ ntx' = e.ntx
       /\ UNCHANGED <<db, req>>
       /\ IF ~e.err.nil THEN failed(e.err, "open")
          ELSE IF lookup.fail # "none" THEN failed(ErrNotFound, "lookup")
          ELSE /\ dtTxn' = e.txn
               /\ dtStores' = NewWrappers(e.txn)
               /\ Return("New", ZeroVal, Nil, FALSE, "new")
               /\ UNCHANGED faults

\* NewDurableTransaction without lines 26-28: an empty list of names is taken
\* as any other.
NewDurableTransaction_NoCheck(inject, lookup) ==
    /\ pc = "start"
    /\ NewDurableTransaction_Make(inject, lookup)
    /\ UNCHANGED <<dtMode, dtNames, rt, cur, ref, refRet, mixed, stat>>
    /\ UNCHANGED <<awVars, itVars, laterVars>>

\* NewDurableTransaction(db, dtMode, dtNames...).
NewDurableTransaction(inject, lookup) ==
    /\ pc = "start"
    /\ IF Len(dtNames) = 0
       THEN /\ lookup = NoLookupFault
            /\ ret' = [kind |-> "New", val |-> ZeroVal, err |-> ErrNoStores,
                       did |-> FALSE, at |-> "config"]
            /\ pc' = "failed"
            /\ UNCHANGED <<hostVars, dtTxn, dtStores, faults>>
       ELSE NewDurableTransaction_Make(inject, lookup)
    /\ UNCHANGED <<dtMode, dtNames, rt, cur, ref, refRet, mixed, stat>>
    /\ UNCHANGED <<awVars, itVars, laterVars>>

\* DurableTransaction.GetObjectStore(name): the error, and the wrapper
\* returned (0 for nil).
ErrNotAvailable == Err(<<"object", "store", "not", "available", "in",
                         "this", "txn">>)
GetObjectStore(name) ==
    IF name \in DOMAIN dtStores
    THEN [err |-> Nil, store |-> dtStores[name].w]
    ELSE [err |-> ErrNotAvailable, store |-> 0]

\* The calls that run a callback of the caller through the retry loop:
\* DurableObjectStore.StoreWithRetry (part_003 lines 26-30) and
\* DurableTransaction.TxnWithRetry (tx.go lines 124-143).
CallbackKinds == {"StoreWithRetry", "TxnWithRetry"}
CallbackOps ==
    {[kind |-> "StoreWithRetry", store |-> s, key |-> NoKey, val |-> Undef] :
        s \in StoreNames}
    \cup {[kind |-> "TxnWithRetry", store |-> "none", key |-> NoKey,
            val |-> Undef]}

\* The caller starts a data operation on the wrapper of store s, or a call
\* with a callback of its own.
D_Begin(op) ==
    /\ pc = "idle"
    /\ IF op.kind = "TxnWithRetry" THEN dtMode # "none"
       ELSE GetObjectStore(op.store).err.nil
    /\ LET single == IF op.kind \in CallbackKinds
                     THEN [db |-> ref, val |-> ZeroVal, err |-> Nil]
                     ELSE IF IsWrite(op.kind) /\ dtMode = "readonly"
                     THEN [db |-> ref, val |-> ZeroVal, err |-> ErrReadOnly]
                     ELSE HostEffect(ref, op)
       IN /\ cur' = op
          /\ ref' = IF faults \/ mixed THEN ref ELSE single.db
          /\ refRet' = IF faults \/ mixed THEN refRet
                        ELSE [val |-> IF ~IsWrite(op.kind) /\ single.err.nil
                                      THEN single.val ELSE ZeroOf(op.kind),
                              err |-> single.err]
    /\ pc' = "d_ensure"
    /\ ret' = NoRet
    /\ stat' = [NoStat EXCEPT !.txn0 = dtTxn]
    /\ UNCHANGED <<hostVars, dtVars, rt, faults, mixed>>
    /\ UNCHANGED <<awVars, itVars, laterVars>>

\* TxnWithRetry that returns nil for a recoverable error, without a retry.
TxnWithRetry_Swallow(val, err, st) ==
    /\ Return(cur.kind, IF err.nil THEN val ELSE ZeroOf(cur.kind),
              IF IsTxnFinishedErr(err) THEN Nil ELSE err, FALSE, "result")
    /\ stat' = st
    /\ UNCHANGED dtTxn

\* TxnWithRetry that returns a recoverable error to the caller.
TxnWithRetry_Surface(val, err, st) ==
    /\ Return(cur.kind, IF err.nil THEN val ELSE ZeroOf(cur.kind), err, FALSE,
              "result")
    /\ dtTxn' = IF IsTxnFinishedErr(err) THEN 0 ELSE dtTxn
    /\ stat' = st

\* TxnWithRetry, after fn returned err (lines 131-141): return, or forget the
\* transaction and go round the loop again.  val: what the callback stored
\* for the caller; st: the counters so far.
TxnWithRetry_Result(val, err, st) ==
    IF err.nil
    THEN /\ Return(cur.kind, val, Nil, FALSE, "result")
         /\ stat' = st
         /\ UNCHANGED dtTxn
    ELSE IF ~IsTxnFinishedErr(err)
    THEN /\ Return(cur.kind, ZeroOf(cur.kind), err, FALSE, "result")
         /\ stat' = st
         /\ UNCHANGED dtTxn
    ELSE /\ dtTxn' = 0
         /\ pc' = "d_ensure"
         /\ stat' = [st EXCEPT !.recov = @ + 1]
         /\ UNCHANGED ret

\* TxnWithRetry, loop head (lines 127-129): ensure a live transaction.
D_Ensure(inject, lookup) ==
    /\ pc = "d_ensure"
    /\ LET e == ensureTransaction(inject, lookup)
       IN /\ (dtTxn = 0 /\ inject.nil) => ntx < MaxTxns
          /\ (dtTxn # 0) => inject.nil
          /\ lookup # NoLookupFault =>
                /\ dtTxn = 0
                /\ inject.nil
                /\ lookup \in LookupFaults(DOMAIN dtStores)
          /\ txns' = e.txns
          /\ ntx' = e.ntx
          /\ dtStores' = e.stores
          /\ dtTxn' = e.txn
          /\ IF ~e.err.nil
             THEN /\ Return(cur.kind, ZeroOf(cur.kind), e.err, FALSE, "open")
                  /\ faults' = TRUE
                  /\ RefAfter(TRUE)
                  /\ UNCHANGED stat
             ELSE /\ pc' = "d_call"
                  /\ stat' = IF e.opened
                             THEN [stat EXCEPT !.opens =
                                     Append(@, Opened(e.txn, e.txns))]
                             ELSE stat
                  /\ UNCHANGED <<ret, faults, ref, refRet>>
    /\ UNCHANGED <<db, req, dtMode, dtNames, rt, cur, mixed>>
    /\ UNCHANGED <<awVars, itVars, laterVars>>

\* StoreWithRetry's callback (e.g. PutKey, lines 115-122), first half: the
\* host call on the wrapper's store handle.  A call the host refuses returns
\* its error at once; an accepted one is awaited.
D_Call ==
    /\ pc = "d_call"
    /\ cur.kind \in DataKinds
    /\ LET h == dtStores[cur.store].store
           e == HostCallErr(h, cur)
           st == [stat EXCEPT !.calls = @ + 1, !.hostErr = e]
       IN IF e.nil
          THEN /\ req' = [txn |-> h, state |-> "pending"]
               /\ pc' = "d_await"
               /\ stat' = st
               /\ UNCHANGED <<dtTxn, ret>>
          ELSE /\ TxnWithRetry_Result(ZeroOf(cur.kind), e, st)
               /\ UNCHANGED req
    /\ UNCHANGED <<db, txns, ntx, dtMode, dtNames, dtStores, rt, cur,
                   ref, refRet, faults, mixed>>
    /\ UNCHANGED <<awVars, itVars, laterVars>>

\* The callback of the caller, in place of one of part_003: it makes no host
\* call and returns the error of its choice.
D_Callback(err) ==
    /\ pc = "d_call"
    /\ cur.kind \in CallbackKinds
    /\ faults' = (faults \/ (~err.nil /\ ~IsTxnFinishedErr(err)))
    /\ RefAfter(~err.nil /\ ~IsTxnFinishedErr(err))
    /\ TxnWithRetry_Result(ZeroVal, err,
                           [stat EXCEPT !.fnCalls = @ + 1, !.fnErr = err,
                                        !.hostErr = err])
    /\ UNCHANGED <<hostVars, dtMode, dtNames, dtStores, rt, cur, mixed>>
    /\ UNCHANGED <<awVars, itVars, laterVars>>

\* Second half: req.Await(ctx), when the host completes the request (with
\* outcome o) before the context is done: Await returns the outcome, the
\* callback returns and TxnWithRetry classifies its error.
D_AwaitOutcome(o) ==
    /\ db' = o.db
    /\ req' = NoReq
    /\ faults' = (faults \/ o.fault)
    /\ RefAfter(o.fault)
    /\ TxnWithRetry_Result(IF IsWrite(cur.kind) THEN ZeroVal ELSE o.val,
                           o.err, [stat EXCEPT !.hostErr = o.err])
    /\ UNCHANGED <<txns, ntx, dtMode, dtNames, dtStores, rt, cur, mixed>>
    /\ UNCHANGED <<awVars, itVars, laterVars>>

\* Second half, the other way: Await returns err with the request still
\* pending (request.go lines 118-120, 127-128).  The callback returns it,
\* TxnWithRetry returns it as it is not a recoverable one, and the scope keeps
\* its transaction.
D_AwaitLeave(err) ==
    /\ pc = "d_await"
    /\ req.state = "pending"
    /\ Len(orphans) < MaxOrphans
    /\ orphans' = Append(orphans, [txn |-> req.txn, op |-> cur])
    /\ req' = NoReq
    /\ faults' = TRUE
    /\ RefAfter(TRUE)
    /\ TxnWithRetry_Result(ZeroOf(cur.kind), err,
                           [stat EXCEPT !.hostErr = err])
    /\ UNCHANGED <<db, txns, ntx, dtMode, dtNames, dtStores, rt, cur, mixed>>
    /\ UNCHANGED <<awVars, itVars, fnVars, lsVars, coVars>>

\* The callback's req.Await(ctx) returns.  leave = Nil: with the outcome of
\* the request, which the host has completed (it completes the requests of a
\* transaction in the order it accepted them); leave an error of
\* AwaitLeaves: with that error, the request still pending.
D_Await(leave) ==
    /\ pc = "d_await"
    /\ req.state = "pending"
    /\ IF leave \in AwaitLeaves
       THEN D_AwaitLeave(leave)
       ELSE /\ leave = Nil
            /\ req.txn \notin OrphanTxns
            /\ \E o \in HostOutcomes(cur) : D_AwaitOutcome(o)

\* Commit that reports a scope without a live transaction as an error.
D_Commit_NilErr(inject) ==
    /\ pc = "idle"
    /\ dtMode # "none"
    /\ cur' = [kind |-> "Commit"]
    /\ IF dtTxn = 0
       THEN /\ ~inject
            /\ stat' = NoStat
            /\ Return("Commit", ZeroVal, ErrTxnFinished, FALSE, "nil")
            /\ UNCHANGED <<txns, db, dtTxn, faults, ref, refRet>>
       ELSE LET c == HostCommit(dtTxn, inject)
                bad == ~(c.err.nil \/ IsTxnFinishedErr(c.err))
            IN /\ txns' = c.txns
               /\ db' = c.db
               /\ dtTxn' = 0
               /\ stat' = [NoStat EXCEPT !.commits = <<dtTxn>>,
                                         !.commitErr = c.err]
               /\ faults' = (faults \/ bad)
               /\ RefAfter(bad)
               /\ Return("Commit", ZeroVal,
                         IF IsTxnFinishedErr(c.err) THEN Nil ELSE c.err,
                         FALSE, "commit")
    /\ UNCHANGED <<ntx, req, dtMode, dtNames, dtStores, rt, mixed>>
    /\ UNCHANGED <<awVars, itVars, laterVars>>

\* Commit without lines 95-97: a recoverable error of the host is returned.
D_Commit_Surface(inject) ==
    /\ pc = "idle"
    /\ dtMode # "none"
    /\ cur' = [kind |-> "Commit"]
    /\ IF dtTxn = 0
       THEN /\ ~inject
            /\ stat' = NoStat
            /\ Return("Commit", ZeroVal, Nil, FALSE, "nil")
            /\ UNCHANGED <<txns, db, dtTxn, faults, ref, refRet>>
       ELSE LET c == HostCommit(dtTxn, inject)
                bad == ~(c.err.nil \/ IsTxnFinishedErr(c.err))
            IN /\ txns' = c.txns
               /\ db' = c.db
               /\ dtTxn' = 0
               /\ stat' = [NoStat EXCEPT !.commits = <<dtTxn>>,
                                         !.commitErr = c.err]
               /\ faults' = (faults \/ bad)
               /\ RefAfter(bad)
               /\ Return("Commit", ZeroVal, c.err, FALSE, "commit")
    /\ UNCHANGED <<ntx, req, dtMode, dtNames, dtStores, rt, mixed>>
    /\ UNCHANGED <<awVars, itVars, laterVars>>

\* DurableTransaction.Commit.  inject: the host refuses the commit.
D_Commit(inject) ==
    /\ pc = "idle"
    /\ dtMode # "none"
    /\ cur' = [kind |-> "Commit"]
    /\ IF dtTxn = 0
       THEN /\ ~inject
            /\ stat' = NoStat
            /\ Return("Commit", ZeroVal, Nil, FALSE, "nil")
            /\ UNCHANGED <<txns, db, dtTxn, faults, ref, refRet>>
       ELSE LET c == HostCommit(dtTxn, inject)
                bad == ~(c.err.nil \/ IsTxnFinishedErr(c.err))
            IN /\ txns' = c.txns
               /\ db' = c.db
               /\ dtTxn' = 0
               /\ stat' = [NoStat EXCEPT !.commits = <<dtTxn>>,
                                         !.commitErr = c.err]
               /\ faults' = (faults \/ bad)
               /\ RefAfter(bad)
               /\ Return("Commit", ZeroVal,
                         IF IsTxnFinishedErr(c.err) THEN Nil ELSE c.err,
                         FALSE, "commit")
    /\ UNCHANGED <<ntx, req, dtMode, dtNames, dtStores, rt, mixed>>
    /\ UNCHANGED <<awVars, itVars, laterVars>>

\* Abort without line 75: the scope keeps the transaction it aborted.
D_Abort_KeepTxn(inject) ==
    /\ pc = "idle"
    /\ dtMode # "none"
    /\ cur' = [kind |-> "Abort"]
    /\ IF dtTxn = 0
       THEN /\ ~inject
            /\ stat' = NoStat
            /\ Return("Abort", ZeroVal, Nil, FALSE, "nil")
            /\ UNCHANGED <<txns, db, dtTxn, faults>>
       ELSE LET a == HostAbort(dtTxn, inject)
            IN /\ txns' = a.txns
               /\ db' = a.db
               /\ UNCHANGED dtTxn
               /\ stat' = [NoStat EXCEPT !.aborts = <<dtTxn>>,
                                         !.abortErr = a.err]
               /\ faults' = (faults \/ ~(a.err.nil \/ IsTxnFinishedErr(a.err)))
               /\ IF a.err.nil
                  THEN Return("Abort", ZeroVal, Nil, TRUE, "abort")
                  ELSE IF IsTxnFinishedErr(a.err)
                  THEN Return("Abort", ZeroVal, Nil, FALSE, "abort")
                  ELSE Return("Abort", ZeroVal, a.err, FALSE, "abort")
    /\ mixed' = TRUE
    /\ RefAfter(TRUE)
    /\ UNCHANGED <<ntx, req, dtMode, dtNames, dtStores, rt>>
    /\ UNCHANGED <<awVars, itVars, laterVars>>

\* DurableTransaction.Abort.  inject: the host refuses the abort.
D_Abort(inject) ==
    /\ pc = "idle"
    /\ dtMode # "none"
    /\ cur' = [kind |-> "Abort"]
    /\ IF dtTxn = 0
       THEN /\ ~inject
            /\ stat' = NoStat
            /\ Return("Abort", ZeroVal, Nil, FALSE, "nil")
            /\ UNCHANGED <<txns, db, dtTxn, faults>>
       ELSE LET a == HostAbort(dtTxn, inject)
            IN /\ txns' = a.txns
               /\ db' = a.db
               /\ dtTxn' = 0
               /\ stat' = [NoStat EXCEPT !.aborts = <<dtTxn>>,
                                         !.abortErr = a.err]
               /\ faults' = (faults \/ ~(a.err.nil \/ IsTxnFinishedErr(a.err)))
               /\ IF a.err.nil
                  THEN Return("Abort", ZeroVal, Nil, TRUE, "abort")
                  ELSE IF IsTxnFinishedErr(a.err)
                  THEN Return("Abort", ZeroVal, Nil, FALSE, "abort")
                  ELSE Return("Abort", ZeroVal, a.err, FALSE, "abort")
    /\ mixed' = TRUE
    /\ RefAfter(TRUE)
    /\ UNCHANGED <<ntx, req, dtMode, dtNames, dtStores, rt>>
    /\ UNCHANGED <<awVars, itVars, laterVars>>

(***************************************************************************)
(* idb.RetryTxn.  The unit of work fn is the caller's: "put" issues        *)
(* PutKey(FnKey, FnVal) on the first store of its transaction and awaits   *)
(* it (a pure idempotent write), "noop" touches nothing; either may then   *)
(* wait for something else before it returns, and returns the error of its *)
(* own choice.                                                             *)
(***************************************************************************)
FnKinds == {"put", "noop"}
FnKey == "k1"
FnVal == "v2"
FnOp == [kind |-> "PutKey", store |-> rt.names[1], key |-> FnKey, val |-> FnVal]

\* The caller calls RetryTxn(ctx, db, mode, fn, names[1], names[2..]...).
R_Begin(mode, names, fn) ==
    /\ pc = "idle"
    /\ dtMode = "none"
    /\ Len(names) > 0
    /\ cur' = [kind |-> "RetryTxn"]
    /\ rt' = [mode |-> mode, names |-> names, fn |-> fn, txn |-> 0,
              db0 |-> db, cancelled |-> FALSE, ntxAt |-> 0]
    /\ pc' = "r_open"
    /\ ret' = NoRet
    /\ stat' = NoStat
    /\ UNCHANGED <<hostVars, dtVars, ref, refRet, faults, mixed>>
    /\ UNCHANGED <<awVars, itVars, laterVars>>

\* RetryTxn that opens every attempt's transaction read-write.
RetryTxn_Open_ReadWrite(inject) ==
    IF ~inject.nil
    THEN [err |-> inject, txn |-> 0, txns |-> txns, ntx |-> ntx]
    ELSE [err |-> Nil, txn |-> ntx + 1, ntx |-> ntx + 1,
          txns |-> [txns EXCEPT ![ntx + 1] = NewTxnRec("readwrite", rt.names)]]

\* RetryTxn lines 35-38: open this attempt's transaction; inject: the error
\* db.Transaction returns, Nil for none.
RetryTxn_Open(inject) ==
    IF ~inject.nil
    THEN [err |-> inject, txn |-> 0, txns |-> txns, ntx |-> ntx]
    ELSE [err |-> Nil, txn |-> ntx + 1, ntx |-> ntx + 1,
          txns |-> [txns EXCEPT ![ntx + 1] = NewTxnRec(rt.mode, rt.names)]]

R_Open(inject) ==
    /\ pc = "r_open"
    /\ inject.nil => ntx < MaxTxns
    /\ LET o == RetryTxn_Open(inject)
       IN /\ txns' = o.txns
          /\ ntx' = o.ntx
          /\ IF ~o.err.nil
             THEN /\ Return("RetryTxn", ZeroVal, o.err, FALSE, "open")
                  /\ faults' = TRUE
                  /\ UNCHANGED <<rt, stat>>
             ELSE /\ rt' = [rt EXCEPT !.txn = o.txn]
                  /\ pc' = "r_fn"
                  /\ stat' = [stat EXCEPT !.opens =
                                Append(@, Opened(o.txn, o.txns))]
                  /\ UNCHANGED <<ret, faults>>
    /\ UNCHANGED <<db, req, dtVars, cur, ref, refRet, mixed>>
    /\ UNCHANGED <<awVars, itVars, laterVars>>

\* RetryTxn lines 44-46: fn returned a recoverable error; next attempt.
RetryTxn_Continue(st) ==
    /\ pc' = "r_open"
    /\ stat' = [st EXCEPT !.recov = @ + 1]
    /\ UNCHANGED <<txns, db, ret, faults>>

\* RetryTxn lines 49-52: fn returned another error; abort, return the error.
RetryTxn_Abort(err, st, injAbort) ==
    LET a == HostAbort(rt.txn, injAbort)
    IN /\ txns' = a.txns
       /\ db' = a.db
       /\ stat' = [st EXCEPT !.aborts = Append(@, rt.txn),
                             !.abortErr = a.err]
       /\ Return("RetryTxn", ZeroVal, err, FALSE, "fn")
       /\ UNCHANGED faults

\* RetryTxn lines 55-61: fn returned nil; commit and return.
RetryTxn_Commit(st, injCommit) ==
    LET c == HostCommit(rt.txn, injCommit)
    IN /\ txns' = c.txns
       /\ db' = c.db
       /\ stat' = [st EXCEPT !.commits = Append(@, rt.txn),
                             !.commitErr = c.err]
       /\ faults' = (faults \/ ~(c.err.nil \/ IsTxnFinishedErr(c.err)))
       /\ Return("RetryTxn", ZeroVal,
                 IF IsTxnFinishedErr(c.err) THEN Nil ELSE c.err, FALSE,
                 "commit")

\* RetryTxn that returns a recoverable error of Commit as it is.
RetryTxn_After_CommitErr(err, st, injAbort, injCommit) ==
    LET s1 == [st EXCEPT !.fnErr = err]
        c == HostCommit(rt.txn, injCommit)
    IN IF IsTxnFinishedErr(err) THEN RetryTxn_Continue(s1)
       ELSE IF ~err.nil THEN RetryTxn_Abort(err, s1, injAbort)
       ELSE /\ txns' = c.txns
            /\ db' = c.db
            /\ stat' = [s1 EXCEPT !.commits = Append(@, rt.txn),
                                  !.commitErr = c.err]
            /\ faults' = (faults \/ ~(c.err.nil \/ IsTxnFinishedErr(c.err)))
            /\ Return("RetryTxn", ZeroVal, c.err, FALSE, "commit")

\* RetryTxn that returns the error of a failed Abort in place of fn's.
RetryTxn_After_AbortErr(err, st, injAbort, injCommit) ==
    LET s1 == [st EXCEPT !.fnErr = err]
        a == HostAbort(rt.txn, injAbort)
    IN IF IsTxnFinishedErr(err) THEN RetryTxn_Continue(s1)
       ELSE IF ~err.nil
       THEN /\ txns' = a.txns
            /\ db' = a.db
            /\ stat' = [s1 EXCEPT !.aborts = Append(@, rt.txn),
                                  !.abortErr = a.err]
            /\ Return("RetryTxn", ZeroVal, IF a.err.nil THEN err ELSE a.err,
                      FALSE, "fn")
            /\ UNCHANGED faults
       ELSE RetryTxn_Commit(s1, injCommit)

\* RetryTxn that runs fn again when Commit reports a recoverable error.
RetryTxn_After_CommitRetry(err, st, injAbort, injCommit) ==
    LET s1 == [st EXCEPT !.fnErr = err]
    IN IF IsTxnFinishedErr(err) THEN RetryTxn_Continue(s1)
       ELSE IF ~err.nil THEN RetryTxn_Abort(err, s1, injAbort)
       ELSE IF IsTxnFinishedErr(HostCommit(rt.txn, injCommit).err)
       THEN /\ pc' = "r_open"
            /\ stat' = [s1 EXCEPT !.commits = Append(@, rt.txn),
                          !.commitErr = HostCommit(rt.txn, injCommit).err]
            /\ UNCHANGED <<txns, db, ret, faults>>
       ELSE RetryTxn_Commit(s1, injCommit)

\* RetryTxn that gives up on a recoverable error of fn and returns nil.
RetryTxn_After_NoRetry(err, st, injAbort, injCommit) ==
    LET s1 == [st EXCEPT !.fnErr = err]
    IN IF IsTxnFinishedErr(err)
       THEN /\ stat' = [s1 EXCEPT !.recov = @ + 1]
            /\ Return("RetryTxn", ZeroVal, Nil, FALSE, "commit")
            /\ UNCHANGED <<txns, db, faults>>
       ELSE IF ~err.nil THEN RetryTxn_Abort(err, s1, injAbort)
       ELSE RetryTxn_Commit(s1, injCommit)

\* RetryTxn that returns fn's error without aborting the transaction.
RetryTxn_After_NoAbort(err, st, injAbort, injCommit) ==
    LET s1 == [st EXCEPT !.fnErr = err]
    IN IF IsTxnFinishedErr(err) THEN RetryTxn_Continue(s1)
       ELSE IF ~err.nil
       THEN /\ stat' = s1
            /\ Return("RetryTxn", ZeroVal, err, FALSE, "fn")
            /\ UNCHANGED <<txns, db, faults>>
       ELSE RetryTxn_Commit(s1, injCommit)

\* RetryTxn lines 44-61: what follows the return of fn with error err.
\* st: the counters so far; injAbort, injCommit: the host refuses the abort,
\* the commit.
RetryTxn_After(err, st, injAbort, injCommit) ==
    LET s1 == [st EXCEPT !.fnErr = err]
    IN IF IsTxnFinishedErr(err) THEN RetryTxn_Continue(s1)
       ELSE IF ~err.nil THEN RetryTxn_Abort(err, s1, injAbort)
       ELSE RetryTxn_Commit(s1, injCommit)

\* RetryTxn line 41: fn(txn) starts.  A "put" issues its host call and, when
\* the host refuses it, returns that error; a "noop" goes on at once.
R_Fn(injAbort) ==
    /\ pc = "r_fn"
    /\ LET e == HostCallErr(rt.txn, FnOp)
           st == [stat EXCEPT !.fnCalls = @ + 1]
       IN IF rt.fn = "put" /\ e.nil
          THEN /\ req' = [txn |-> rt.txn, state |-> "pending"]
               /\ pc' = "r_await"
               /\ stat' = [st EXCEPT !.hostErr = Nil]
               /\ ~injAbort
               /\ UNCHANGED <<db, txns, ret, faults>>
          ELSE IF rt.fn = "put"
          THEN /\ RetryTxn_After(e, [st EXCEPT !.hostErr = e], injAbort, FALSE)
               /\ UNCHANGED req
          ELSE /\ pc' = "r_fnwait"
               /\ stat' = [st EXCEPT !.hostErr = Nil]
               /\ ~injAbort
               /\ UNCHANGED <<db, txns, req, ret, faults>>
    /\ UNCHANGED <<ntx, dtVars, rt, cur, ref, refRet, mixed>>
    /\ UNCHANGED <<awVars, itVars, laterVars>>

\* fn's Await returns with the host's outcome o; fn returns a failure at once.
R_AwaitOutcome(o, injAbort) ==
    /\ req' = NoReq
    /\ IF o.err.nil
       THEN /\ db' = o.db
            /\ pc' = "r_fnwait"
            /\ ~injAbort
            /\ UNCHANGED <<txns, ret, stat, faults>>
       ELSE RetryTxn_After(o.err, [stat EXCEPT !.hostErr = o.err], injAbort,
                           FALSE)
    /\ UNCHANGED <<ntx, dtVars, rt, cur, ref, refRet, mixed>>
    /\ UNCHANGED <<awVars, itVars, laterVars>>

R_Await ==
    /\ pc = "r_await"
    /\ req.state = "pending"
    /\ \E o \in HostOutcomes(FnOp), i \in BOOLEAN : R_AwaitOutcome(o, i)

\* fn returns err, having possibly waited for something else meanwhile.
R_FnReturn(err, injAbort, injCommit) ==
    /\ pc = "r_fnwait"
    /\ injAbort => (~err.nil /\ ~IsTxnFinishedErr(err))
    /\ injCommit => err.nil
    /\ RetryTxn_After(err, stat, injAbort, injCommit)
    /\ UNCHANGED <<ntx, req, dtVars, rt, cur, ref, refRet, mixed>>
    /\ UNCHANGED <<awVars, itVars, laterVars>>

\* The context passed to RetryTxn is cancelled: before the first attempt, or
\* by another goroutine or a timer while fn is suspended.  RetryTxn (lines
\* 26-63) never reads ctx, so nothing else changes.
R_CtxCancel ==
    /\ cur.kind = "RetryTxn"
    /\ \/ pc = "r_open" /\ stat.opens = << >>
       \/ pc \in {"r_await", "r_fnwait"}
    /\ ~rt.cancelled
    /\ rt' = [rt EXCEPT !.cancelled = TRUE, !.ntxAt = ntx]
    /\ UNCHANGED <<hostVars, dtVars, pc, cur, ret, obsVars>>
    /\ UNCHANGED <<awVars, itVars, laterVars>>

(***************************************************************************)
(* package idb, request.go: one Request and one Await on it.  The request  *)
(* is made, the host completes it at some moment and notifies the          *)
(* listeners registered at that moment; the caller calls Await at some     *)
(* moment, and its context may be cancelled at any moment.  The request    *)
(* is one of a transaction (req.txn), or one that has none.                *)
(***************************************************************************)
\* What a request of a transaction asks of the host.
AwaitOp == [kind |-> "PutKey", store |-> "items", key |-> "k1", val |-> "v1"]
Null == "null"
Results == Vals \cup {Undef}
ErrInvalidState == Err(<<"InvalidStateError:", "The", "request", "has",
                         "not", "finished.">>)
\* The errors a failed request may carry.
ReqErrors == {ErrConstraint, ErrTxnFinished}

NoRq == [state |-> "none", result |-> Undef, error |-> Nil]
NoAwaitRet == [val |-> Null, err |-> Nil, how |-> "none"]
NoLsn == [success |-> FALSE, error |-> FALSE]
\* late: the caller's context was cancelled when a listener had already sent
\* the request's outcome to Await.
NoCtx == [parent |-> FALSE, await |-> FALSE, listen |-> FALSE,
          inner |-> FALSE, late |-> FALSE]

\* The Await part of the state while no Await is looked at.
AwaitIdle ==
    /\ rq = NoRq
    /\ lsn = NoLsn
    /\ actx = NoCtx
    /\ resultCh = << >>
    /\ errCh = << >>
    /\ aPc = "none"
    /\ aRet = NoAwaitRet
    /\ notes = {}

\* ctx.Done() is ready, for Await's context, Listen's and listen's: a context
\* is done once it or one it descends from is cancelled.
AwaitCtxDone == actx.parent \/ actx.await
ListenCtxDone == AwaitCtxDone \/ actx.listen
InnerCtxDone == ListenCtxDone \/ actx.inner

\* Request.Result (lines 73-75): the host refuses to read the result of a
\* request that is not done.
Result(r) ==
    IF r.state = "pending" THEN [val |-> Null, err |-> ErrInvalidState]
    ELSE [val |-> r.result, err |-> Nil]

\* Request.Err (lines 78-84): the error the request carries.
RequestErr(r) == r.error

\* Await's success callback that hands over both the result and an error.
AwaitSuccess_Both(r) ==
    /\ resultCh' = Append(resultCh, Result(r).val)
    /\ errCh' = Append(errCh, ErrInvalidState)

\* Await's success callback (lines 108-115), run on request r.
AwaitSuccess(r) ==
    IF ~Result(r).err.nil
    THEN /\ errCh' = Append(errCh, Result(r).err)
         /\ UNCHANGED resultCh
    ELSE /\ resultCh' = Append(resultCh, Result(r).val)
         /\ UNCHANGED errCh

\* Await's failure callback (lines 115-117).
AwaitFailed(r) ==
    /\ errCh' = Append(errCh, RequestErr(r))
    /\ UNCHANGED resultCh

\* The callbacks the listeners run: Await's, or the caller's own when the
\* caller registered them with Listen, ListenSuccess or ListenError (they
\* send nothing to Await's channels).
OnSuccess(r) ==
    IF aPc = "listening" THEN UNCHANGED <<resultCh, errCh>>
    ELSE AwaitSuccess(r)
OnFailed(r) ==
    IF aPc = "listening" THEN UNCHANGED <<resultCh, errCh>>
    ELSE AwaitFailed(r)

\* No addEventListener call made, no listener of an earlier Await left.
NoAdds == [success |-> 0, error |-> 0]
ListenIdle ==
    /\ adds = NoAdds
    /\ stale = NoLsn

\* Await without its deferred cancel (line 106) on the return of line 119.
A_Listen_NoCancel(failE, failS) ==
    /\ aPc = "made"
    /\ failE => ~failS
    /\ IF failE \/ failS
       THEN /\ lsn' = [success |-> FALSE, error |-> failS]
            /\ adds' = [success |-> 0, error |-> IF failS THEN 1 ELSE 0]
            /\ aRet' = [val |-> Null, err |-> ErrListen, how |-> "listen"]
            /\ aPc' = "done"
            /\ UNCHANGED actx
       ELSE /\ lsn' = [success |-> TRUE, error |-> TRUE]
            /\ adds' = [success |-> 1, error |-> 1]
            /\ aPc' = "select"
            /\ UNCHANGED <<aRet, actx>>
    /\ UNCHANGED <<rq, resultCh, errCh, notes, mainVars, itVars, coVars, orphans, fnVars,
                   stale>>

\* Listen that registers the success listener a second time.
Await_Listen_Twice(failE, failS) ==
    /\ failE => ~failS
    /\ IF failE \/ failS
       THEN /\ lsn' = [success |-> FALSE, error |-> failS]
            /\ adds' = [success |-> 0, error |-> IF failS THEN 1 ELSE 0]
            /\ aRet' = [val |-> Null, err |-> ErrListen, how |-> "listen"]
            /\ actx' = [actx EXCEPT !.await = TRUE]
            /\ aPc' = "done"
       ELSE /\ lsn' = [success |-> TRUE, error |-> TRUE]
            /\ adds' = [success |-> 2, error |-> 1]
            /\ aPc' = "select"
            /\ UNCHANGED <<aRet, actx>>

\* The caller calls Await (lines 101-120): it makes its channels and its
\* context and has Listen and listen (lines 160-234) register the failure
\* listener, then the success listener.  failE, failS: addEventListener
\* fails for the one, the other; Await then returns that error, and its
\* deferred cancel runs.
Await_Listen(failE, failS) ==
    /\ failE => ~failS
    /\ IF failE \/ failS
       THEN /\ lsn' = [success |-> FALSE, error |-> failS]
            /\ adds' = [success |-> 0, error |-> IF failS THEN 1 ELSE 0]
            /\ aRet' = [val |-> Null, err |-> ErrListen, how |-> "listen"]
            /\ actx' = [actx EXCEPT !.await = TRUE]
            /\ aPc' = "done"
       ELSE /\ lsn' = [success |-> TRUE, error |-> TRUE]
            /\ adds' = [success |-> 1, error |-> 1]
            /\ aPc' = "select"
            /\ UNCHANGED <<aRet, actx>>

\* The caller calls Await on the request.
A_Listen(failE, failS) ==
    /\ aPc = "made"
    /\ Await_Listen(failE, failS)
    /\ UNCHANGED <<rq, resultCh, errCh, notes, mainVars, itVars, coVars, orphans, fnVars,
                   stale>>

\* The caller calls Listen itself with callbacks of its own (lines 160-172;
\* which is "both"), ListenSuccess (lines 150-152; "success") or ListenError
\* (lines 155-157; "error"), the last two being Listen with the other
\* callback nil.  listen (lines 175-234) registers the failure listener, then
\* the success listener, each for a callback that is not nil, and Listen
\* returns at once: there is no channel, no select and no deferred cancel.
\* failE, failS: addEventListener fails for the one, the other; the call
\* returns that error, and a failure listener registered before a failed
\* registration of the success listener stays until the context is done.
L_Listen(which, failE, failS) ==
    /\ aPc = "made"
    /\ failE => which \in {"error", "both"}
    /\ failS => which \in {"success", "both"} /\ ~failE
    /\ LET addE == which \in {"error", "both"} /\ ~failE
           addS == which \in {"success", "both"} /\ ~failE /\ ~failS
       IN /\ lsn' = [success |-> addS, error |-> addE]
          /\ adds' = [success |-> IF addS THEN 1 ELSE 0,
                      error |-> IF addE THEN 1 ELSE 0]
    /\ aRet' = IF failE \/ failS
               THEN [val |-> Null, err |-> ErrListen, how |-> "listen"]
               ELSE [val |-> Null, err |-> Nil, how |-> "listening"]
    /\ aPc' = "listening"
    /\ UNCHANGED <<rq, actx, resultCh, errCh, notes, mainVars, itVars, coVars,
                   orphans, fnVars, stale>>

\* listen's panicHandler (lines 177-185), run for request r when a callback
\* panicked: a best-effort Abort of the request's transaction, if it has
\* one, cancel, and the failure callback (nil after ListenSuccess: the call
\* panics) under ignorePanic.  d: the records
\* when the listener ran; c: the contexts by then; panics: the callbacks
\* that panic when called; injAbort: the host refuses the abort.
panicHandler(r, d, c, panics, injAbort) ==
    /\ IF req.txn = 0
       THEN /\ ~injAbort
            /\ db' = d
            /\ UNCHANGED <<txns, stat>>
       ELSE LET a == HostAbort(req.txn, injAbort)
            IN /\ txns' = a.txns
               /\ db' = IF a.err.nil THEN a.db ELSE d
               /\ stat' = [stat EXCEPT !.aborts = Append(@, req.txn),
                                       !.abortErr = a.err]
    /\ actx' = [c EXCEPT !.inner = TRUE]
    /\ IF "failed" \in panics
       THEN UNCHANGED <<resultCh, errCh>>
       ELSE OnFailed(r)
    /\ notes' = notes \cup {"panic"}

\* The host executes the request, completes it with a result and dispatches
\* "success": the success listener, if registered, runs Listen's wrapper
\* (lines 166-169) around Await's callback, under catchHandler (lines
\* 211-216).
H_Success(v, panics, injAbort) ==
    /\ rq.state = "pending"
    /\ aPc \in {"made", "select", "done", "listening"}
    /\ req.txn # 0 => txns[req.txn].state = "active"
    /\ rq' = [state |-> "done", result |-> v, error |-> Nil]
    /\ req' = [req EXCEPT !.state = "done"]
    /\ LET d == IF req.txn = 0 THEN db ELSE HostEffect(db, AwaitOp).db
       IN IF lsn.success /\ "success" \in panics
          THEN panicHandler(rq', d, [actx EXCEPT !.listen = TRUE], panics,
                            injAbort)
          ELSE /\ ~injAbort
               /\ panics = {}
               /\ db' = d
               /\ UNCHANGED <<txns, stat>>
               /\ IF lsn.success
                  THEN /\ OnSuccess(rq')
                       /\ actx' = [actx EXCEPT !.listen = TRUE]
                       /\ notes' = notes \cup {"success"}
                  ELSE UNCHANGED <<resultCh, errCh, actx, notes>>
    /\ UNCHANGED <<lsn, aPc, aRet, itVars, laterVars>>
    /\ UNCHANGED <<ntx, dtVars, rt, pc, cur, ret, ref, refRet, faults, mixed>>

\* The host fails the request and dispatches "error": the failure listener,
\* if registered, runs Await's callback and cancels listen's context, under
\* catchHandler (lines 188-193).
H_Error(e, panics, injAbort) ==
    /\ rq.state = "pending"
    /\ aPc \in {"made", "select", "done", "listening"}
    /\ req.txn # 0 => txns[req.txn].state = "active"
    /\ rq' = [state |-> "done", result |-> Undef, error |-> e]
    /\ req' = [req EXCEPT !.state = "done"]
    /\ IF lsn.error /\ "failed" \in panics
       THEN /\ panics = {"failed"}
            /\ panicHandler(rq', db, actx, panics, injAbort)
       ELSE /\ ~injAbort
            /\ panics = {}
            /\ UNCHANGED <<db, txns, stat>>
            /\ IF lsn.error
               THEN /\ OnFailed(rq')
                    /\ actx' = [actx EXCEPT !.inner = TRUE]
                    /\ notes' = notes \cup {"error"}
               ELSE UNCHANGED <<resultCh, errCh, actx, notes>>
    /\ UNCHANGED <<lsn, aPc, aRet, itVars, laterVars>>
    /\ UNCHANGED <<ntx, dtVars, rt, pc, cur, ret, ref, refRet, faults, mixed>>

\* The host commits the request's transaction once the request is done and
\* nothing else is asked of the transaction.
H_AutoCommit ==
    /\ req.txn # 0
    /\ req.state = "done"
    /\ txns[req.txn].state = "active"
    /\ txns' = [txns EXCEPT ![req.txn] = Finished("committed")]
    /\ UNCHANGED <<db, ntx, req, dtVars, rt, pc, cur, ret, obsVars>>
    /\ UNCHANGED <<awVars, itVars, laterVars>>

\* Someone cancels the context the caller passed to Await.
CtxCancel ==
    /\ aPc \in {"made", "select", "listening"}
    /\ ~actx.parent
    /\ actx' = [actx EXCEPT !.parent = TRUE,
                             !.late = (resultCh # << >> \/ errCh # << >>)]
    /\ UNCHANGED <<rq, lsn, resultCh, errCh, aPc, aRet, notes, mainVars, itVars, laterVars>>

\* The goroutine of Await is parked in the select when a listener sends or
\* the context is cancelled: the program's goroutines are all blocked while
\* the host dispatches an event, and nothing between the return of Listen and
\* the select suspends.  The first send or close that reaches the parked
\* select is handed to it and decides its case; what happens before the
\* goroutine runs again changes nothing of it.
TakesOutcome == actx.parent => actx.late
TakesCtx == AwaitCtxDone /\ ~actx.late

\* Await that aborts the request's transaction when its context is done.
A_Select_AbortOnCancel(case) ==
    /\ aPc = "select"
    /\ CASE case = "result" ->
              /\ resultCh # << >>
              /\ TakesOutcome
              /\ aRet' = [val |-> Head(resultCh), err |-> Nil,
                          how |-> "result"]
              /\ resultCh' = Tail(resultCh)
              /\ UNCHANGED <<errCh, mainVars, itVars, laterVars>>
         [] case = "error" ->
              /\ errCh # << >>
              /\ TakesOutcome
              /\ aRet' = [val |-> Null, err |-> Head(errCh), how |-> "error"]
              /\ errCh' = Tail(errCh)
              /\ UNCHANGED <<resultCh, mainVars, itVars, laterVars>>
         [] case = "ctx" ->
              /\ TakesCtx
              /\ aRet' = [val |-> Null, err |-> ErrCanceled, how |-> "ctx"]
              /\ txns' = IF req.txn = 0 THEN txns
                         ELSE HostAbort(req.txn, FALSE).txns
              /\ db' = IF req.txn = 0 THEN db
                       ELSE HostAbort(req.txn, FALSE).db
              /\ UNCHANGED <<resultCh, errCh>>
              /\ UNCHANGED <<ntx, req, dtVars, rt, pc, cur, ret, obsVars>>
              /\ UNCHANGED <<itVars, laterVars>>
    /\ actx' = [actx EXCEPT !.await = TRUE]
    /\ aPc' = "done"
    /\ UNCHANGED <<rq, lsn, notes>>

\* A select that chooses anew among the cases that are ready when its
\* goroutine runs again.
A_Select_Poll(case) ==
    /\ aPc = "select"
    /\ CASE case = "result" ->
              /\ resultCh # << >>
              /\ aRet' = [val |-> Head(resultCh), err |-> Nil,
                          how |-> "result"]
              /\ resultCh' = Tail(resultCh)
              /\ UNCHANGED errCh
         [] case = "error" ->
              /\ errCh # << >>
              /\ aRet' = [val |-> Null, err |-> Head(errCh), how |-> "error"]
              /\ errCh' = Tail(errCh)
              /\ UNCHANGED resultCh
         [] case = "ctx" ->
              /\ AwaitCtxDone
              /\ aRet' = [val |-> Null, err |-> ErrCanceled, how |-> "ctx"]
              /\ UNCHANGED <<resultCh, errCh>>
    /\ actx' = [actx EXCEPT !.await = TRUE]
    /\ aPc' = "done"
    /\ UNCHANGED <<rq, lsn, notes, mainVars, itVars, laterVars>>

\* Await's select (lines 122-129) returns by the case that was decided while
\* it was parked: the outcome a listener sent, unless the context was done
\* before the send; the context's error, unless a listener had sent before
\* the context was done.  Await returns, and its deferred cancel runs.
A_Select(case) ==
    /\ aPc = "select"
    /\ CASE case = "result" ->
              /\ resultCh # << >>
              /\ TakesOutcome
              /\ aRet' = [val |-> Head(resultCh), err |-> Nil,
                          how |-> "result"]
              /\ resultCh' = Tail(resultCh)
              /\ UNCHANGED errCh
         [] case = "error" ->
              /\ errCh # << >>
              /\ TakesOutcome
              /\ aRet' = [val |-> Null, err |-> Head(errCh), how |-> "error"]
              /\ errCh' = Tail(errCh)
              /\ UNCHANGED resultCh
         [] case = "ctx" ->
              /\ TakesCtx
              /\ aRet' = [val |-> Null, err |-> ErrCanceled, how |-> "ctx"]
              /\ UNCHANGED <<resultCh, errCh>>
    /\ actx' = [actx EXCEPT !.await = TRUE]
    /\ aPc' = "done"
    /\ UNCHANGED <<rq, lsn, notes, mainVars, itVars, laterVars>>

\* listen's goroutines (lines 201-208, 224-231): once listen's context is
\* done, each removes its listener.
A_RemoveError ==
    /\ lsn.error
    /\ InnerCtxDone
    /\ lsn' = [lsn EXCEPT !.error = FALSE]
    /\ UNCHANGED <<rq, actx, resultCh, errCh, aPc, aRet, notes, mainVars, itVars, laterVars>>

A_RemoveSuccess ==
    /\ lsn.success
    /\ InnerCtxDone
    /\ lsn' = [lsn EXCEPT !.success = FALSE]
    /\ UNCHANGED <<rq, actx, resultCh, errCh, aPc, aRet, notes, mainVars, itVars, laterVars>>

(***************************************************************************)
(* package idb, request.go and cursor.go: one cursor request and the Iter  *)
(* on it.  The range of the cursor holds the records with the keys         *)
(* 1..hcur.n; the cursor visits them in ascending order ("next") or in     *)
(* descending order ("prev").  Iter is called as soon as the request is    *)
(* made, before the host has delivered the first record.  The callback of  *)
(* Iter may delete or update the record at the cursor (cursor.go 159-175). *)
(***************************************************************************)
\* Records in the range of a cursor, at most.
MaxRecs == 3

CursorDirections == {"next", "prev"}
CursorSources == {"store", "index"}

ErrCursorStopIter == Err(<<"stop", "cursor", "iteration">>)
\* Errors of the host's cursor methods.
ErrCursorMoving == Err(<<"InvalidStateError:", "The", "cursor", "is",
                         "being", "iterated.">>)
ErrDataError == Err(<<"DataError:", "The", "parameter", "is", "not",
                      "past", "the", "cursor's", "position.">>)
ErrTypeError == Err(<<"TypeError:", "A", "count", "of", "zero.">>)
ErrInvalidAccess == Err(<<"InvalidAccessError:", "The", "cursor's",
                          "source", "is", "not", "an", "index.">>)
ErrKeyCursor == Err(<<"InvalidStateError:", "The", "cursor", "is", "a",
                      "key", "cursor.">>)

\* What a callback may return.
IterErrs == {Nil, ErrCursorStopIter, ErrSome}

\* The movement methods of Cursor, with their arguments.  A record of an
\* index cursor has the same index key and primary key.
Movements ==
    {[kind |-> "Continue", arg |-> 0]}
    \cup {[kind |-> "Advance", arg |-> c] : c \in 0..2}
    \cup {[kind |-> k, arg |-> key] :
            k \in {"ContinueKey", "ContinuePrimaryKey"}, key \in 1..MaxRecs}
\* The movement calls one invocation of the callback makes, in order.
MoveSeqs ==
    {<< >>}
    \cup {<<m>> : m \in Movements}
    \cup {<<[kind |-> "Continue", arg |-> 0],
             [kind |-> "Continue", arg |-> 0]>>}

\* The value of a record before the traversal, and the values the callback
\* gives to Update.
StoredVals == {0}
UpdateVals == {1}

\* Cursor.Delete and Cursor.Update, with the argument of Update.
Writes ==
    {[kind |-> "Delete", arg |-> 0]}
    \cup {[kind |-> "Update", arg |-> v] : v \in UpdateVals}
IsMovement(m) == m.kind \notin {"Delete", "Update"}
\* The calls on the cursor one invocation of the callback makes, in order:
\* movement calls alone, one write, and a write after the cursor was moved.
CallSeqs ==
    MoveSeqs
    \cup {<<w>> : w \in Writes}
    \cup {<<[kind |-> "Continue", arg |-> 0], [kind |-> "Delete", arg |-> 0]>>}
\* The same and more: two writes, and a write before a movement call.
WriteSeqs ==
    CallSeqs
    \cup {<<w1, w2>> : w1, w2 \in Writes}
    \cup {<<w, m>> : w \in Writes,
                      m \in {[kind |-> "Continue", arg |-> 0],
                              [kind |-> "Advance", arg |-> 2]}}
    \cup {<<[kind |-> "Continue", arg |-> 0], w>> : w \in Writes}

\* n: records in the range when the cursor was opened; pos: the place in the
\* traversal order (from 0) of the record the cursor is at, n when the range
\* is exhausted; moving: the host is moving the cursor to the place target
\* and will notify the request; mode: the mode of the cursor's transaction;
\* keyOnly: the cursor was opened with OpenKeyCursor; recs: the records of
\* the range as the cursor's transaction finds them, a value for each key
\* that has a record.
NoCursor == [n |-> 0, dir |-> "none", source |-> "none", pos |-> 0,
             moving |-> FALSE, target |-> 0, mode |-> "none",
             keyOnly |-> FALSE, recs |-> << >>]
NoIterRet == [err |-> Nil, how |-> "none"]

\* The cursor part of the state while no Iter is looked at.
CursorIdle ==
    /\ hcur = NoCursor
    /\ iPc = "none"
    /\ iCalls = << >>
    /\ iRet = NoIterRet

\* The key of the record at place i of the traversal order of cursor h.
KeyAt(h, i) == IF h.dir = "prev" THEN h.n - i ELSE i + 1
\* The place of the first record, in the traversal order of h, whose key is
\* k or past it.
PlaceOf(h, k) ==
    LET i == IF h.dir = "prev" THEN h.n - k ELSE k - 1
    IN IF i > h.n THEN h.n ELSE i

Min(a, b) == IF a < b THEN a ELSE b

\* The host's advance, continue and continuePrimaryKey of cursor h: the
\* error thrown, Nil for none, and the cursor after the call.
HostMove(h, m) ==
    LET to(i) == [err |-> Nil,
                  cursor |-> [h EXCEPT !.moving = TRUE,
                                        !.target = Min(i, h.n)]]
        no(e) == [err |-> e, cursor |-> h]
    IN IF h.moving THEN no(ErrCursorMoving)
       ELSE CASE m.kind = "Continue" -> to(h.pos + 1)
              [] m.kind = "Advance" ->
                   IF m.arg = 0 THEN no(ErrTypeError) ELSE to(h.pos + m.arg)
              [] m.kind = "ContinueKey" ->
                   IF PlaceOf(h, m.arg) <= h.pos THEN no(ErrDataError)
                   ELSE to(PlaceOf(h, m.arg))
              [] m.kind = "ContinuePrimaryKey" ->
                   IF h.source # "index" THEN no(ErrInvalidAccess)
                   ELSE IF PlaceOf(h, m.arg) <= h.pos THEN no(ErrDataError)
                   ELSE to(PlaceOf(h, m.arg))

\* The host's delete and update of cursor h: the error thrown, Nil for none,
\* and the cursor after the call.  The host runs the requests of a
\* transaction in the order they were made, so every later request of the
\* transaction finds the record deleted or stored; update stores a record
\* under the cursor's key also where delete has removed it.
HostWrite(h, w) ==
    LET k == KeyAt(h, h.pos)
        no(e) == [err |-> e, cursor |-> h]
    IN IF h.mode = "readonly" THEN no(ErrReadOnly)
       ELSE IF h.moving \/ h.pos >= h.n THEN no(ErrCursorMoving)
       ELSE IF h.keyOnly THEN no(ErrKeyCursor)
       ELSE [err |-> Nil,
             cursor |->
                 [h EXCEPT !.recs =
                     IF w.kind = "Delete"
                     THEN [j \in DOMAIN h.recs \ {k} |-> h.recs[j]]
                     ELSE [j \in DOMAIN h.recs \cup {k} |->
                              IF j = k THEN w.arg ELSE h.recs[j]]]]

\* Cursor.Advance, Continue, ContinueKey, ContinuePrimaryKey (cursor.go
\* 131-156) on the wrapper c = [iterated, host, errs, calls, reqs]: the flag
\* is set, then the host is called.  errs: the errors the calls on the
\* wrapper returned, calls: how many movement calls the host received, reqs:
\* how many requests Delete and Update returned.
CursorMove(c, m) ==
    LET r == HostMove(c.host, m)
    IN [iterated |-> TRUE, host |-> r.cursor, errs |-> Append(c.errs, r.err),
        calls |-> c.calls + 1, reqs |-> c.reqs]

\* Cursor.Delete (cursor.go 159-166): the host is called; its error is
\* returned, or the request it made.  The flag of the wrapper is not set.
CursorDelete(c) ==
    LET r == HostWrite(c.host, [kind |-> "Delete", arg |-> 0])
    IN [c EXCEPT !.host = r.cursor, !.errs = Append(@, r.err),
                 !.reqs = IF r.err = Nil THEN @ + 1 ELSE @]

\* Cursor.Update (cursor.go 169-175), the same with the value to store.
CursorUpdate(c, value) ==
    LET r == HostWrite(c.host, [kind |-> "Update", arg |-> value])
    IN [c EXCEPT !.host = r.cursor, !.errs = Append(@, r.err),
                 !.reqs = IF r.err = Nil THEN @ + 1 ELSE @]

\* One call of the callback on the wrapper.
CursorCall(c, m) ==
    CASE m.kind = "Delete" -> CursorDelete(c)
      [] m.kind = "Update" -> CursorUpdate(c, m.arg)
      [] OTHER -> CursorMove(c, m)

\* One wrapper for the whole iteration: its flag stays set once a callback
\* has made a movement call.
wrapCursor_Reused(h) ==
    [iterated |-> \E i \in DOMAIN iCalls : iCalls[i].moves # << >>,
     host |-> h, errs |-> << >>, calls |-> 0, reqs |-> 0]

\* wrapCursor (cursor.go 75-80): a wrapper of the host's cursor, not iterated.
wrapCursor(h) ==
    [iterated |-> FALSE, host |-> h, errs |-> << >>, calls |-> 0, reqs |-> 0]

RECURSIVE CursorCalls(_, _)
CursorCalls(c, cs) ==
    IF cs = << >> THEN c ELSE CursorCalls(CursorCall(c, Head(cs)), Tail(cs))

\* What one invocation of the callback leaves in iCalls.  key, val: the key
\* and the value of the record the cursor was at (Key, Value); moves, writes:
\* the movement calls and the Delete and Update calls it made; err: what it
\* returned; calls, reqs: the counts of the wrapper d after the step.
IterCall(h, cs, err, d) ==
    [key |-> KeyAt(h, h.pos), val |-> h.recs[KeyAt(h, h.pos)],
     moves |-> SelectSeq(cs, IsMovement),
     writes |-> SelectSeq(cs, LAMBDA m : ~IsMovement(m)),
     err |-> err, calls |-> d.calls, reqs |-> d.reqs]

\* cursorIter returns the callback's error as it is.
cursorIter_Return_Same(err) == err

\* cursorIter returns nil whatever the callback returned.
cursorIter_Return_Nil(err) == Nil

\* cursorIter lines 358-363: what Iter returns when the callback returned the
\* non-nil error err.
cursorIter_Return(err) == IF err = ErrCursorStopIter THEN Nil ELSE err

\* cursorIter that never moves the cursor itself.
cursorIter_Default_Never(iterated) == FALSE

\* cursorIter that always moves the cursor itself.
cursorIter_Default_Always(iterated) == TRUE

\* cursorIter line 364: whether the loop calls Continue after a callback that
\* returned nil.
cursorIter_Default(iterated) == ~iterated

\* cursorIter lines 350-356: AwaitCursor returns.  o = "event": the host has
\* moved the cursor and notified the request, whose result is the cursor or,
\* past the last record, null; "error": the request failed; "ctx": the
\* context of Iter was cancelled.
It_Await(o) ==
    /\ iPc = "await"
    /\ CASE o = "event" ->
              /\ hcur.moving
              /\ hcur' = [hcur EXCEPT !.moving = FALSE, !.pos = hcur.target]
              /\ IF hcur.target >= hcur.n
                 THEN /\ iRet' = [err |-> Nil, how |-> "exhausted"]
                      /\ iPc' = "returned"
                 ELSE /\ iPc' = "iter"
                      /\ UNCHANGED iRet
         [] o = "error" ->
              /\ hcur.moving
              /\ hcur' = [hcur EXCEPT !.moving = FALSE]
              /\ iRet' = [err |-> ErrTxnFinished, how |-> "await"]
              /\ iPc' = "returned"
         [] o = "ctx" ->
              /\ iRet' = [err |-> ErrCanceled, how |-> "await"]
              /\ iPc' = "returned"
              /\ UNCHANGED hcur
    /\ UNCHANGED iCalls
    /\ UNCHANGED <<mainVars, awVars, laterVars>>

\* cursorIter lines 357-369: iter(cursor) runs, making the calls cs on the
\* cursor (movements, Delete, Update) and returning err; then Iter returns,
\* or the loop moves the cursor with Continue if the callback did not, and
\* goes round.  inject: the host refuses the loop's Continue (the
\* transaction is not active any more).
It_Iter(cs, err, inject) ==
    /\ iPc = "iter"
    /\ LET c == CursorCalls(wrapCursor(hcur), cs)
           dflt == err = Nil /\ cursorIter_Default(c.iterated)
           d == IF dflt /\ ~inject
                THEN CursorMove(c, [kind |-> "Continue", arg |-> 0])
                ELSE IF dflt
                THEN [c EXCEPT !.errs = Append(@, ErrNotActive),
                               !.calls = @ + 1]
                ELSE c
           derr == IF dflt THEN d.errs[Len(d.errs)] ELSE Nil
       IN /\ inject => dflt
          /\ hcur' = d.host
          /\ iCalls' = Append(iCalls, IterCall(hcur, cs, err, d))
          /\ IF err # Nil
             THEN /\ iRet' = [err |-> cursorIter_Return(err), how |-> "iter"]
                  /\ iPc' = "returned"
             ELSE IF derr # Nil
             THEN /\ iRet' = [err |-> derr, how |-> "continue"]
                  /\ iPc' = "returned"
             ELSE /\ iPc' = "await"
                  /\ UNCHANGED iRet
    /\ UNCHANGED <<mainVars, awVars, laterVars>>

(***************************************************************************)
(* package idb, retry.go: one call of IsTxnFinishedErr.  A message is the  *)
(* sequence of its words, and a suffix of it a suffix of that sequence.    *)
(***************************************************************************)
\* Words before and words after the middle of a message, at most.
MaxAffix == 1

Affixes == {"InvalidStateError:", "error", "finished.", "closing."}
RECURSIVE SeqsUpTo(_, _)
SeqsUpTo(S, n) ==
    IF n = 0 THEN {<< >>}
    ELSE LET shorter == SeqsUpTo(S, n - 1)
         IN shorter \cup {Append(s, w) : s \in shorter, w \in S}

\* The phrases, pieces of them and one with another last word.
Middles ==
    {<< >>, TxnFinishedPhrase, DBClosingPhrase, Tail(TxnFinishedPhrase),
     SubSeq(TxnFinishedPhrase, 1, 3), SubSeq(DBClosingPhrase, 1, 4),
     <<"The", "transaction", "has", "closing.">>}

\* The errors IsTxnFinishedErr is called with.
ErrInputs ==
    {Nil} \cup {Err(p \o m \o s) : p \in SeqsUpTo(Affixes, MaxAffix),
                                   m \in Middles,
                                   s \in SeqsUpTo(Affixes, MaxAffix)}

NoOut == [done |-> FALSE, val |-> FALSE]

\* CursorDirection values past the last declared one that are tried.
MaxDirection == 4

CursorNext == 0
CursorNextUnique == 1
CursorPrevious == 2
CursorPreviousUnique == 3
Directions ==
    {CursorNext, CursorNextUnique, CursorPrevious, CursorPreviousUnique}
\* The CursorDirection values a cursor is opened with.
DirInputs == (0 - 1)..MaxDirection

\* A parseCursorDirection that knows no direction name.
parseCursorDirection_Default(s) == CursorNext

\* parseCursorDirection (cursor.go 38-49).
parseCursorDirection(s) ==
    CASE s = "nextunique" -> CursorNextUnique
      [] s = "prev" -> CursorPrevious
      [] s = "prevunique" -> CursorPreviousUnique
      [] OTHER -> CursorNext

\* CursorDirection.String (cursor.go 51-62).
String(d) ==
    CASE d = CursorNextUnique -> "nextunique"
      [] d = CursorPrevious -> "prev"
      [] d = CursorPreviousUnique -> "prevunique"
      [] OTHER -> "next"

NoDir == [done |-> FALSE, str |-> "", val |-> 0]

FnIdle ==
    /\ cErr = Nil
    /\ cOut = NoOut
    /\ dIn = CursorNext
    /\ dOut = NoDir

\* The call IsTxnFinishedErr(cErr) returns.
F_IsTxnFinishedErr ==
    /\ ~cOut.done
    /\ cOut' = [done |-> TRUE, val |-> IsTxnFinishedErr(cErr)]
    /\ UNCHANGED <<cErr, dIn, dOut>>
    /\ UNCHANGED <<mainVars, awVars, itVars, lsVars, coVars, orphans>>

\* A cursor is opened with the direction dIn, which jsValue (cursor.go 64-66)
\* hands to the host as String(dIn); the host's cursor reports that string as
\* its direction, and Cursor.Direction (cursor.go 96-104) parses it.
F_Direction ==
    /\ ~dOut.done
    /\ LET str == String(dIn)
       IN dOut' = [done |-> TRUE, str |-> str,
                   val |-> parseCursorDirection(str)]
    /\ UNCHANGED <<cErr, cOut, dIn>>
    /\ UNCHANGED <<mainVars, awVars, itVars, lsVars, coVars, orphans>>

(***************************************************************************)
(* package idb, request.go: the traversal of a cursor, with the Await of   *)
(* each step and its listeners.  cursorIter calls AwaitCursor, that is     *)
(* Await, once a step; each Await registers listeners of its own on the    *)
(* one request of the cursor.                                              *)
(***************************************************************************)
\* The host dispatches events everywhere.
GoIdle_Always == TRUE

\* The program runs on one thread and the host dispatches an event only when
\* no goroutine can run: the removal goroutines of listen wait for a context
\* that is not done, and the goroutine of the traversal waits in Await's
\* select with no case ready, or inside the callback.
GoIdle ==
    /\ (lsn.success \/ lsn.error) => ~InnerCtxDone
    /\ stale = NoLsn
    /\ \/ /\ aPc = "select"
          /\ resultCh = << >>
          /\ errCh = << >>
          /\ ~AwaitCtxDone
       \/ iPc = "yield"

\* cursorIter line 350 calls AwaitCursor, which calls Await (line 90).
T_Await(failE, failS) ==
    /\ iPc = "await"
    /\ aPc = "none"
    /\ Await_Listen(failE, failS)
    /\ UNCHANGED <<rq, resultCh, errCh, notes, mainVars, itVars, coVars, orphans, fnVars,
                   stale>>

\* What the listeners on the request note of a "success" event: the success
\* listener of the Await in progress hears it ("success"); a listener that
\* was called before is called again ("again"); no success listener is
\* registered ("missed").
SuccessNotes ==
    (IF lsn.success THEN {"success"} ELSE {})
    \cup (IF stale.success \/ (lsn.success /\ "success" \in notes)
          THEN {"again"} ELSE {})
    \cup (IF ~lsn.success /\ ~stale.success THEN {"missed"} ELSE {})

\* The host has moved the cursor: the request is done, its result the cursor
\* or, past the last record, null, and "success" is dispatched to the
\* listeners registered now.  The success listener of the Await in progress
\* runs Listen's wrapper (lines 166-169) around Await's callback.
T_Notify ==
    /\ iPc \in {"await", "yield"}
    /\ hcur.moving
    /\ GoIdle
    /\ hcur' = [hcur EXCEPT !.moving = FALSE, !.pos = hcur.target]
    /\ rq' = [state |-> "done",
              result |-> IF hcur.target >= hcur.n THEN Null ELSE "cursor",
              error |-> Nil]
    /\ IF lsn.success
       THEN /\ AwaitSuccess(rq')
            /\ actx' = [actx EXCEPT !.listen = TRUE]
       ELSE UNCHANGED <<resultCh, errCh, actx>>
    /\ notes' = notes \cup SuccessNotes
    /\ UNCHANGED <<lsn, aPc, aRet, iPc, iCalls, iRet, mainVars, coVars, orphans, fnVars,
                   lsVars>>

\* The host fails the request of the cursor and dispatches "error".
T_Fail ==
    /\ iPc \in {"await", "yield"}
    /\ hcur.moving
    /\ GoIdle
    /\ hcur' = [hcur EXCEPT !.moving = FALSE]
    /\ rq' = [state |-> "done", result |-> Undef, error |-> ErrTxnFinished]
    /\ IF lsn.error
       THEN /\ AwaitFailed(rq')
            /\ actx' = [actx EXCEPT !.inner = TRUE]
            /\ notes' = notes \cup {"error"}
       ELSE UNCHANGED <<resultCh, errCh, actx, notes>>
    /\ UNCHANGED <<lsn, aPc, aRet, iPc, iCalls, iRet, mainVars, coVars, orphans, fnVars,
                   lsVars>>

\* Await has returned to AwaitCursor (lines 89-98) and that to cursorIter
\* (lines 350-356).  The listeners the Await registered and has not removed
\* yet stay on the request, their context done, until their goroutines run;
\* what else the Await had is gone.
T_AwaitCursor ==
    /\ iPc = "await"
    /\ aPc = "done"
    /\ IF ~aRet.err.nil
       THEN /\ iRet' = [err |-> aRet.err, how |-> "await"]
            /\ iPc' = "returned"
       ELSE IF aRet.val = Null
       THEN /\ iRet' = [err |-> Nil, how |-> "exhausted"]
            /\ iPc' = "returned"
       ELSE /\ iPc' = "iter"
            /\ UNCHANGED iRet
    /\ stale' = [success |-> stale.success \/ lsn.success,
                 error |-> stale.error \/ lsn.error]
    /\ lsn' = NoLsn
    /\ adds' = NoAdds
    /\ actx' = [NoCtx EXCEPT !.parent = actx.parent]
    /\ resultCh' = << >>
    /\ errCh' = << >>
    /\ aPc' = "none"
    /\ aRet' = NoAwaitRet
    /\ notes' = notes \cap {"again", "missed"}
    /\ UNCHANGED <<rq, hcur, iCalls, mainVars, coVars, orphans, fnVars>>

\* A removal goroutine of an earlier Await runs (lines 201-208, 224-231).
T_RemoveStale(kind) ==
    /\ stale[kind]
    /\ stale' = [stale EXCEPT ![kind] = FALSE]
    /\ UNCHANGED <<mainVars, awVars, itVars, coVars, orphans, fnVars, adds>>

\* The callback makes the calls cs on the cursor, among them a movement
\* call the host accepts, and then suspends, waiting for something else than
\* the cursor's request (the request of its Delete or Update, or another).
T_IterYield(cs) ==
    /\ iPc = "iter"
    /\ LET c == CursorCalls(wrapCursor(hcur), cs)
       IN /\ c.host.moving
          /\ hcur' = c.host
          /\ iCalls' = Append(iCalls, IterCall(hcur, cs, Nil, c))
    /\ iPc' = "yield"
    /\ UNCHANGED <<iRet, mainVars, awVars, laterVars>>

\* The callback resumes and returns nil; it has moved the cursor, so the loop
\* does not (line 364) and goes round.
T_IterResume ==
    /\ iPc = "yield"
    /\ iPc' = "await"
    /\ UNCHANGED <<hcur, iCalls, iRet, mainVars, awVars, laterVars>>

(***************************************************************************)
(* package durable: several goroutines that call data operations, Commit   *)
(* and Abort on one DurableTransaction.  One goroutine runs at a time, and *)
(* it runs until it suspends or returns.                                   *)
(***************************************************************************)
\* Goroutines that share the scope.
MaxGor == 2

\* What every goroutine asks of the wrapper of store s.
SharedOp(s) == [kind |-> "PutKey", store |-> s, key |-> "k1", val |-> "v1"]

\* pc: where the goroutine is; store: the wrapper it works on; req: the
\* transaction of the request it awaits; calls: the host calls of its
\* operation so far; h, live: of the last of them, the transaction of the
\* handle it was issued on and the scope's transaction at that moment.
NoGor == [pc |-> "none", store |-> "none", req |-> 0, calls |-> 0,
          h |-> 0, live |-> 0]
IdleGor == [NoGor EXCEPT !.pc = "idle"]

SharedIdle ==
    /\ gor = [g \in 1..MaxGor |-> NoGor]
    /\ running = 0
    /\ orphans = << >>

\* Any goroutine may take a step at any moment.
CanRun_Any(g) == TRUE

\* Goroutine g can take a step: it is the one that runs, or none runs and
\* the scheduler picks it.
CanRun(g) == running \in {0, g}

\* The goroutine g calls a data operation on the wrapper of store s.
S_Begin(g, s) ==
    /\ gor[g].pc = "idle"
    /\ CanRun(g)
    /\ GetObjectStore(s).err.nil
    /\ gor' = [gor EXCEPT ![g] = [IdleGor EXCEPT !.pc = "ensure",
                                                 !.store = s]]
    /\ running' = g
    /\ UNCHANGED <<mainVars, awVars, itVars, fnVars, lsVars, orphans>>

\* TxnWithRetry, lines 137-141 for goroutine g: fn returned err.
S_Result(g, err, at) ==
    IF ~err.nil /\ IsTxnFinishedErr(err)
    THEN /\ dtTxn' = 0
         /\ gor' = [gor EXCEPT ![g] = [at EXCEPT !.pc = "ensure", !.req = 0]]
         /\ running' = g
    ELSE /\ gor' = [gor EXCEPT ![g] = IdleGor]
         /\ running' = 0
         /\ UNCHANGED dtTxn

\* TxnWithRetry, loop head (lines 127-129), in goroutine g.
S_Ensure(g, inject) ==
    /\ gor[g].pc = "ensure"
    /\ CanRun(g)
    /\ LET e == ensureTransaction(inject, NoLookupFault)
       IN /\ (dtTxn = 0 /\ inject.nil) => ntx < MaxTxns
          /\ (dtTxn # 0) => inject.nil
          /\ txns' = e.txns
          /\ ntx' = e.ntx
          /\ dtStores' = e.stores
          /\ dtTxn' = e.txn
          /\ IF ~e.err.nil
             THEN /\ gor' = [gor EXCEPT ![g] = IdleGor]
                  /\ running' = 0
             ELSE /\ gor' = [gor EXCEPT ![g].pc = "call"]
                  /\ running' = g
    /\ UNCHANGED <<db, req, dtMode, dtNames, rt, pc, cur, ret, obsVars>>
    /\ UNCHANGED <<awVars, itVars, fnVars, lsVars, orphans>>

\* StoreWithRetry's callback in goroutine g: the host call on the wrapper's
\* store handle (part_003 lines 27-29, 115-119).  An accepted call is awaited:
\* the goroutine suspends.
S_Call(g) ==
    /\ gor[g].pc = "call"
    /\ CanRun(g)
    /\ LET h == dtStores[gor[g].store].store
           e == HostCallErr(h, SharedOp(gor[g].store))
           at == [gor[g] EXCEPT !.calls = @ + 1, !.h = h, !.live = dtTxn]
       IN IF e.nil
          THEN /\ gor' = [gor EXCEPT ![g] = [at EXCEPT !.pc = "await",
                                                        !.req = h]]
               /\ running' = 0
               /\ UNCHANGED dtTxn
          ELSE S_Result(g, e, at)
    /\ UNCHANGED <<db, txns, ntx, req, dtMode, dtNames, dtStores, rt, pc,
                   cur, ret, obsVars>>
    /\ UNCHANGED <<awVars, itVars, fnVars, lsVars, orphans>>

\* While all goroutines are suspended the host completes the request g
\* awaits, executed (fail is Nil) or failed; Await returns in g (part_003 line 120) and g runs.
\* A request of a transaction that another goroutine committed meanwhile is
\* still executed; one of an aborted transaction fails.  With fail in
\* AwaitLeaves, Await returns in g while the request is still pending
\* (request.go lines 118-120, 127-128).
S_Await(g, fail) ==
    /\ gor[g].pc = "await"
    /\ running = 0
    /\ IF fail \in AwaitLeaves
       THEN /\ Len(orphans) < MaxOrphans
            /\ orphans' = Append(orphans, [txn |-> gor[g].req,
                                           op |-> SharedOp(gor[g].store)])
            /\ UNCHANGED db
            /\ S_Result(g, fail, gor[g])
       ELSE /\ txns[gor[g].req].state \in {"active", "committed"} \/ ~fail.nil
            /\ LET o == IF fail.nil
                        THEN HostEffect(db, SharedOp(gor[g].store))
                        ELSE [db |-> db, val |-> ZeroVal, err |-> fail]
               IN /\ db' = o.db
                  /\ S_Result(g, o.err, gor[g])
            /\ UNCHANGED orphans
    /\ UNCHANGED <<txns, ntx, req, dtMode, dtNames, dtStores, rt, pc, cur,
                   ret, obsVars>>
    /\ UNCHANGED <<awVars, itVars, fnVars, lsVars>>

\* The goroutine g calls Commit (lines 88-99) or Abort (lines 69-83).
S_End(g, kind) ==
    /\ gor[g].pc = "idle"
    /\ CanRun(g)
    /\ dtTxn # 0
    /\ LET c == IF kind = "Commit" THEN HostCommit(dtTxn, FALSE)
                ELSE HostAbort(dtTxn, FALSE)
       IN /\ txns' = c.txns
          /\ db' = c.db
    /\ dtTxn' = 0
    /\ running' = 0
    /\ UNCHANGED <<ntx, req, dtMode, dtNames, dtStores, rt, pc, cur, ret,
                   obsVars, gor>>
    /\ UNCHANGED <<awVars, itVars, fnVars, lsVars, orphans>>

\* While all goroutines are suspended the host commits a transaction that has
\* no request outstanding.
S_AutoFinish(t) ==
    /\ running = 0
    /\ txns[t].state = "active"
    /\ \A g \in 1..MaxGor : gor[g].req # t
    /\ t \notin OrphanTxns
    /\ txns' = [txns EXCEPT ![t] = Finished("committed")]
    /\ UNCHANGED <<db, ntx, req, dtVars, rt, pc, cur, ret, obsVars>>
    /\ UNCHANGED <<awVars, itVars, laterVars>>

(***************************************************************************)
(* The program.                                                            *)
(***************************************************************************)
\* The parts that stand alone, while they are not looked at.
LaterIdle == FnIdle /\ ListenIdle /\ SharedIdle

\* The caller has looked at what the call returned and goes on.
CallerContinue ==
    /\ pc = "returned"
    /\ pc' = "idle"
    /\ cur' = NoCall
    /\ ret' = NoRet
    /\ rt' = NoRt
    /\ stat' = NoStat
    /\ refRet' = NoRefRet
    /\ UNCHANGED <<hostVars, dtVars, ref, faults, mixed>>
    /\ UNCHANGED <<awVars, itVars, laterVars>>

\* A behaviour is of a caller that works through one Durable Scope, built with
\* NewDurableTransaction(db, dtMode, dtNames...), or of a caller that calls
\* RetryTxn.
MainStart ==
    /\ db = EmptyDB
    /\ txns = [t \in 1..MaxTxns |-> NoTxn]
    /\ ntx = 0
    /\ req = NoReq
    /\ dtTxn = 0
    /\ dtStores = << >>
    /\ rt = NoRt
    /\ cur = NoCall
    /\ ret = NoRet
    /\ ref = EmptyDB
    /\ refRet = NoRefRet
    /\ faults = FALSE
    /\ mixed = FALSE
    /\ stat = NoStat

Init ==
    /\ \/ /\ pc = "start"
          /\ dtMode \in Modes
          /\ dtNames \in NameLists
       \/ /\ pc = "idle"
          /\ dtMode = "none"
          /\ dtNames = << >>
    /\ MainStart
    /\ AwaitIdle
    /\ CursorIdle
    /\ LaterIdle

Inject == {Nil} \cup OpenFaults

\* The caller of Next asks for the data operations of DataOps under contexts
\* that are not cancelled; NextOps adds the other operations and callbacks
\* of the caller, NextLeave the returns of Await on a cancelled context.
Next ==
    \/ \E e \in Inject : NewDurableTransaction(e, NoLookupFault)
    \/ \E s \in StoreNames : \E op \in DataOps(s) : D_Begin(op)
    \/ \E e \in Inject : D_Ensure(e, NoLookupFault)
    \/ D_Call
    \/ D_Await(Nil)
    \/ \E i \in BOOLEAN : D_Commit(i)
    \/ \E i \in BOOLEAN : D_Abort(i)
    \/ \E m \in Modes, names \in NameLists, fn \in FnKinds : R_Begin(m, names, fn)
    \/ \E e \in Inject : R_Open(e)
    \/ \E i \in BOOLEAN : R_Fn(i)
    \/ R_Await
    \/ \E e \in FnErrs, i, j \in BOOLEAN : R_FnReturn(e, i, j)
    \/ \E t \in 1..MaxTxns : AutoFinish(t)
    \/ CallerContinue

Spec == Init /\ [][Next]_vars

\* The same program with a caller that asks for any operation of a wrapper
\* and runs callbacks of its own through the retry loop.
NextOps ==
    \/ Next
    \/ \E s \in StoreNames : \E op \in AllOps(s) : D_Begin(op)
    \/ \E op \in CallbackOps : D_Begin(op)
    \/ \E e \in FnErrs : D_Callback(e)

SpecOps == Init /\ [][NextOps]_vars

\* The same program with a caller whose contexts may be cancelled, and a
\* host whose addEventListener may fail, while a data operation waits.
NextLeave ==
    \/ Next
    \/ \E e \in AwaitLeaves : D_Await(e)
    \/ \E f \in BOOLEAN : H_Orphan(f)

SpecLeave == Init /\ [][NextLeave]_vars

\* The same program with a host whose txn.ObjectStore may fail for a wrapper
\* while ensureTransaction rebinds them, or for a name in the constructor.
NextRebind ==
    \/ Next
    \/ \E l \in LookupFaults(StoreNames) : NewDurableTransaction(Nil, l)
    \/ \E l \in LookupFaults(StoreNames) : D_Ensure(Nil, l)

SpecRebind == Init /\ [][NextRebind]_vars

\* Calls of RetryTxn whose context may be cancelled.
NextCancel ==
    \/ \E m \in Modes, names \in NameLists, fn \in FnKinds : R_Begin(m, names, fn)
    \/ \E e \in Inject : R_Open(e)
    \/ \E i \in BOOLEAN : R_Fn(i)
    \/ R_Await
    \/ \E e \in FnErrs, i, j \in BOOLEAN : R_FnReturn(e, i, j)
    \/ \E t \in 1..MaxTxns : AutoFinish(t)
    \/ CallerContinue
    \/ R_CtxCancel

SpecCancel == Init /\ [][NextCancel]_vars

\* A caller that works through a Durable Scope, with data operations and
\* with callbacks of its own, under contexts that are not cancelled; its
\* goroutine runs whenever it can, a callback of the caller returns, and the
\* host completes every request it accepted.
\* The caller writes one value only.
LiveOps(s) == {op \in DataOps(s) : op.val # "v2"}
NextDurable ==
    \/ \E e \in Inject : NewDurableTransaction(e, NoLookupFault)
    \/ \E s \in StoreNames : \E op \in LiveOps(s) : D_Begin(op)
    \/ \E op \in CallbackOps : D_Begin(op)
    \/ \E e \in Inject : D_Ensure(e, NoLookupFault)
    \/ D_Call
    \/ \E e \in FnErrs : D_Callback(e)
    \/ D_Await(Nil)
    \/ D_Commit(FALSE)
    \/ \E t \in 1..MaxTxns : AutoFinish(t)
    \/ CallerContinue

SpecDurableLive ==
    /\ Init
    /\ [][NextDurable]_vars
    /\ WF_vars(\E e \in Inject : D_Ensure(e, NoLookupFault))
    /\ WF_vars(D_Call)
    /\ WF_vars(\E e \in FnErrs : D_Callback(e))
    /\ WF_vars(D_Await(Nil))


\* The specification of one Await: a request was made, of a transaction over
\* "items" or of none (its result, should it succeed, is any of Results), and
\* nothing else goes on.
InitAwait ==
    /\ pc = "idle"
    /\ dtMode = "none"
    /\ dtNames = << >>
    /\ db = EmptyDB
    /\ \/ /\ ntx = 0
          /\ txns = [t \in 1..MaxTxns |-> NoTxn]
          /\ req = [txn |-> 0, state |-> "pending"]
       \/ /\ ntx = 1
          /\ txns = [t \in 1..MaxTxns |->
                       IF t = 1 THEN NewTxnRec("readwrite", <<"items">>)
                       ELSE NoTxn]
          /\ req = [txn |-> 1, state |-> "pending"]
    /\ dtTxn = 0
    /\ dtStores = << >>
    /\ rt = NoRt
    /\ cur = NoCall
    /\ ret = NoRet
    /\ ref = EmptyDB
    /\ refRet = NoRefRet
    /\ faults = FALSE
    /\ mixed = FALSE
    /\ stat = NoStat
    /\ rq = [state |-> "pending", result |-> Undef, error |-> Nil]
    /\ lsn = NoLsn
    /\ actx = NoCtx
    /\ resultCh = << >>
    /\ errCh = << >>
    /\ aPc = "made"
    /\ aRet = NoAwaitRet
    /\ notes = {}
    /\ CursorIdle
    /\ LaterIdle

\* Await with the callbacks it has: they do not panic.
NextAwait ==
    \/ \E e, s \in BOOLEAN : A_Listen(e, s)
    \/ \E v \in Results : H_Success(v, {}, FALSE)
    \/ \E e \in ReqErrors : H_Error(e, {}, FALSE)
    \/ H_AutoCommit
    \/ CtxCancel
    \/ \E c \in {"result", "error", "ctx"} : A_Select(c)
    \/ A_RemoveError
    \/ A_RemoveSuccess

SpecAwait == InitAwait /\ [][NextAwait]_vars

\* The same wait through Listen with callbacks that may panic when called,
\* and a caller that may register callbacks of its own through Listen,
\* ListenSuccess or ListenError in place of calling Await.
Panics == SUBSET {"success", "failed"}

NextPanic ==
    \/ \E e, s \in BOOLEAN : A_Listen(e, s)
    \/ \E w \in {"success", "error", "both"}, e, s \in BOOLEAN :
          L_Listen(w, e, s)
    \/ \E v \in Results, p \in Panics, i \in BOOLEAN : H_Success(v, p, i)
    \/ \E e \in ReqErrors, p \in Panics, i \in BOOLEAN : H_Error(e, p, i)
    \/ H_AutoCommit
    \/ CtxCancel
    \/ \E c \in {"result", "error", "ctx"} : A_Select(c)
    \/ A_RemoveError
    \/ A_RemoveSuccess

SpecPanic == InitAwait /\ [][NextPanic]_vars

\* The goroutines listen starts are scheduled once their context is done.
SpecAwaitFair ==
    /\ SpecPanic
    /\ WF_vars(A_RemoveError)
    /\ WF_vars(A_RemoveSuccess)

\* The goroutine that made the request goes on to call Await, and a select
\* with a case that is ready takes one.
SpecAwaitLive ==
    /\ SpecAwait
    /\ WF_vars(\E e, s \in BOOLEAN : A_Listen(e, s))
    /\ WF_vars(\E c \in {"result", "error", "ctx"} : A_Select(c))

\* The specification of one Iter: a cursor, with or without values, was
\* opened over a range of up to MaxRecs records in a transaction of either
\* mode, and Iter called on its request.
InitCursor ==
    /\ pc = "idle"
    /\ dtMode = "none"
    /\ dtNames = << >>
    /\ MainStart
    /\ AwaitIdle
    /\ LaterIdle
    /\ \E n \in 0..MaxRecs, d \in CursorDirections, s \in CursorSources,
          m \in {"readonly", "readwrite"}, ko \in BOOLEAN :
       \E r \in [1..n -> StoredVals] :
          hcur = [n |-> n, dir |-> d, source |-> s, pos |-> 0,
                  moving |-> TRUE, target |-> 0, mode |-> m,
                  keyOnly |-> ko, recs |-> r]
    /\ iPc = "await"
    /\ iCalls = << >>
    /\ iRet = NoIterRet

NextCursor ==
    \/ \E o \in {"event", "error", "ctx"} : It_Await(o)
    \/ \E cs \in CallSeqs, e \in IterErrs, i \in BOOLEAN : It_Iter(cs, e, i)

SpecCursor == InitCursor /\ [][NextCursor]_vars

\* The same with the callbacks that make several writes in one invocation.
NextCursorWrites ==
    \/ \E o \in {"event", "error", "ctx"} : It_Await(o)
    \/ \E cs \in WriteSeqs, e \in IterErrs, i \in BOOLEAN : It_Iter(cs, e, i)

SpecCursorWrites == InitCursor /\ [][NextCursorWrites]_vars

\* The specification of one call of IsTxnFinishedErr, with any of ErrInputs.
InitFn ==
    /\ pc = "idle"
    /\ dtMode = "none"
    /\ dtNames = << >>
    /\ MainStart
    /\ AwaitIdle
    /\ CursorIdle
    /\ cErr \in ErrInputs
    /\ cOut = NoOut
    /\ dIn \in DirInputs
    /\ dOut = NoDir
    /\ ListenIdle
    /\ SharedIdle

NextFn ==
    \/ F_IsTxnFinishedErr
    \/ F_Direction

SpecFn == InitFn /\ [][NextFn]_vars

\* The specification of one Iter with the Await of each step: the same start
\* as SpecCursor.  The callback may suspend after it moved the cursor.
TraverseSeqs ==
    {<< >>, <<[kind |-> "Continue", arg |-> 0]>>,
     <<[kind |-> "Advance", arg |-> 2]>>,
     <<[kind |-> "Delete", arg |-> 0]>>,
     <<[kind |-> "Update", arg |-> 1], [kind |-> "Continue", arg |-> 0]>>}

NextTraverse ==
    \/ \E e, s \in BOOLEAN : T_Await(e, s)
    \/ T_Notify
    \/ T_Fail
    \/ CtxCancel
    \/ \E c \in {"result", "error", "ctx"} : A_Select(c)
    \/ A_RemoveError
    \/ A_RemoveSuccess
    \/ \E k \in {"success", "error"} : T_RemoveStale(k)
    \/ T_AwaitCursor
    \/ \E ms \in TraverseSeqs, e \in IterErrs, i \in BOOLEAN :
          It_Iter(ms, e, i)
    \/ \E ms \in TraverseSeqs : T_IterYield(ms)
    \/ T_IterResume

SpecTraverse == InitCursor /\ [][NextTraverse]_vars

\* The same, run to its end: the goroutines of the program run whenever they
\* can, the callback returns or resumes, and the host delivers every
\* notification it owes.
SpecTraverseLive ==
    /\ SpecTraverse
    /\ WF_vars(\E e, s \in BOOLEAN : T_Await(e, s))
    /\ WF_vars(T_Notify)
    /\ WF_vars(\E c \in {"result", "error", "ctx"} : A_Select(c))
    /\ WF_vars(T_AwaitCursor)
    /\ WF_vars(A_RemoveError)
    /\ WF_vars(A_RemoveSuccess)
    /\ WF_vars(\E k \in {"success", "error"} : T_RemoveStale(k))
    /\ WF_vars(\/ \E ms \in TraverseSeqs, e \in IterErrs, i \in BOOLEAN :
                     It_Iter(ms, e, i)
               \/ \E ms \in TraverseSeqs : T_IterYield(ms))
    /\ WF_vars(T_IterResume)

\* The specification of MaxGor goroutines that share a Durable Scope, built
\* over two stores.
InitShared ==
    /\ pc = "idle"
    /\ dtMode = "readwrite"
    /\ dtNames = <<"logs", "items">>
    /\ db = EmptyDB
    /\ ntx = 1
    /\ txns = [t \in 1..MaxTxns |->
                 IF t = 1 THEN [state |-> "active", mode |-> dtMode,
                                stores |-> dtNames, base |-> EmptyDB]
                 ELSE NoTxn]
    /\ req = NoReq
    /\ dtTxn = 1
    /\ dtStores = NewWrappers(1)
    /\ rt = NoRt
    /\ cur = NoCall
    /\ ret = NoRet
    /\ ref = EmptyDB
    /\ refRet = NoRefRet
    /\ faults = FALSE
    /\ mixed = FALSE
    /\ stat = NoStat
    /\ AwaitIdle
    /\ CursorIdle
    /\ FnIdle
    /\ ListenIdle
    /\ gor = [g \in 1..MaxGor |-> IdleGor]
    /\ running = 0
    /\ orphans = << >>

NextShared ==
    \/ \E g \in 1..MaxGor, s \in StoreNames : S_Begin(g, s)
    \/ \E g \in 1..MaxGor, e \in Inject : S_Ensure(g, e)
    \/ \E g \in 1..MaxGor : S_Call(g)
    \/ \E g \in 1..MaxGor, e \in {Nil} \cup ReqFaults : S_Await(g, e)
    \/ \E g \in 1..MaxGor, k \in {"Commit", "Abort"} : S_End(g, k)
    \/ \E t \in 1..MaxTxns : S_AutoFinish(t)

SpecShared == InitShared /\ [][NextShared]_vars

\* The same goroutines with contexts that may be cancelled while they wait.
NextSharedLeave ==
    \/ NextShared
    \/ \E g \in 1..MaxGor, e \in AwaitLeaves : S_Await(g, e)
    \/ \E f \in BOOLEAN : H_Orphan(f)

SpecSharedLeave == InitShared /\ [][NextSharedLeave]_vars


(***************************************************************************)
(* Properties of the Durable Scope and of RetryTxn.                        *)
(***************************************************************************)
Calls == {"RetryTxn", "Commit", "Abort"} \cup DataKinds

\* The Durable Scope has met nothing but recoverable finishes, and its caller
\* has called no Abort: the reference transaction is followed.
Tracked == dtMode # "none" /\ ~faults /\ ~mixed

\* C1: whatever recoverable finishes happen between the AddKey, PutKey, Get
\* and Delete operations issued through a Durable Scope, every Get returns
\* what it returns in a single never-interrupted transaction running the same
\* operations, and the records are those that transaction holds.
C1_Refinement ==
    (Tracked /\ pc \in {"idle", "returned"}) =>
        /\ db = ref
        /\ (pc = "returned" /\ cur.kind = "Get") =>
               (ret.val = refRet.val /\ ret.err = refRet.err)

\* A Get met a finished transaction, was retried and returned a stored value.
C1_Witness ==
    /\ Tracked
    /\ pc = "returned"
    /\ cur.kind = "Get"
    /\ stat.recov >= 1
    /\ ret.val \in Vals
    /\ ret.val = refRet.val

\* C2: through a read-write Durable Scope, a Get of key k returns without an
\* error the value of the latest PutKey of k, and no value after a Delete of
\* k, also when the transaction finished between the write and the Get.
C2_GetAfterWrite ==
    (Tracked /\ dtMode = "readwrite" /\ pc = "returned" /\ cur.kind = "Get") =>
        /\ ret.err = Nil
        /\ ret.val = ref[cur.store][cur.key]

\* The transaction finished after PutKey(k1, v2); the Get opened another and
\* returned v2.
C2_Witness ==
    /\ Tracked
    /\ dtMode = "readwrite"
    /\ pc = "returned"
    /\ cur.kind = "Get"
    /\ ret = [kind |-> "Get", val |-> "v2", err |-> Nil, did |-> FALSE,
              at |-> "result"]
    /\ stat.recov = 1
    /\ Len(stat.opens) = 1

\* C3 as stated: no call returns an error that IsTxnFinishedErr classifies as
\* recoverable.
C3_NeverSurfaced ==
    (pc = "returned" /\ cur.kind \in Calls) => ~IsTxnFinishedErr(ret.err)

\* C3, amended: a call returns a recoverable error only when opening a
\* transaction failed with it; a recoverable error of the unit of work, of a
\* host data call or its request, of Commit or of Abort is never returned.
C3_OnlyFromOpen ==
    (pc = "returned" /\ cur.kind \in Calls /\ IsTxnFinishedErr(ret.err)) =>
        ret.at = "open"

\* RetryTxn met a recoverable error of fn and one of Commit and returned nil.
C3_Witness ==
    /\ pc = "returned"
    /\ cur.kind = "RetryTxn"
    /\ stat.recov >= 1
    /\ IsTxnFinishedErr(stat.commitErr)
    /\ ret.err = Nil

\* C4: a Durable data operation ensures a live transaction (opening one in
\* the mode and over the names of the construction, in their order, and
\* rebinding every wrapper), issues its host call on it and awaits it; a
\* recoverable result clears the live transaction and goes back to the ensure
\* step, any other result is returned.  The live transaction is set where one
\* is ensured (the construction ensures the first) and cleared only by a
\* recoverable result or by Commit or Abort.
C4_Loop ==
    [][/\ (dtTxn = 0 /\ dtTxn' # 0) =>
             /\ pc \in {"start", "d_ensure"}
             /\ txns[dtTxn'].state = "none"
             /\ txns'[dtTxn'] = [state |-> "active", mode |-> dtMode,
                                 stores |-> dtNames, base |-> db]
             /\ DOMAIN dtStores' = Range(dtNames)
             /\ \A n \in DOMAIN dtStores' : dtStores'[n].store = dtTxn'
       /\ (dtTxn # 0 /\ dtTxn' # dtTxn) =>
             /\ dtTxn' = 0
             /\ \/ /\ pc \in {"d_call", "d_await"}
                   /\ pc' = "d_ensure"
                   /\ IsTxnFinishedErr(stat'.hostErr)
                \/ /\ pc = "idle"
                   /\ cur'.kind \in {"Commit", "Abort"}
       /\ (pc = "d_ensure" /\ pc' = "d_call") =>
             /\ dtTxn' # 0
             /\ dtTxn # 0 => (dtTxn' = dtTxn /\ txns' = txns)
       /\ (pc = "d_call" /\ pc' = "d_await") =>
             /\ req'.txn = dtTxn
             /\ dtStores[cur.store].store = dtTxn
       /\ (pc \in {"d_call", "d_await"} /\ pc' = "d_ensure") =>
             /\ IsTxnFinishedErr(stat'.hostErr)
             /\ dtTxn' = 0
       /\ (pc \in {"d_call", "d_await"} /\ pc' = "returned") =>
             /\ ~IsTxnFinishedErr(stat'.hostErr)
             /\ ret'.err = stat'.hostErr
             /\ dtTxn' = dtTxn
       /\ (pc = "d_call") => pc' \in {"d_await", "d_ensure", "returned"}
      ]_vars

\* An operation met a finished transaction and is about to issue its host
\* call again, on the second transaction, to which every wrapper is bound.
C4_Witness ==
    /\ pc = "d_call"
    /\ stat.recov = 1
    /\ dtTxn = 2
    /\ txns[1].state = "committed"
    /\ DOMAIN dtStores = {"items", "logs"}
    /\ \A n \in DOMAIN dtStores : dtStores[n].store = 2

\* Every attempt of RetryTxn so far opened a transaction of its own, in the
\* mode and over the names the caller gave.
C5_Attempts ==
    /\ \A i \in 1..Len(stat.opens) :
          /\ stat.opens[i].mode = rt.mode
          /\ stat.opens[i].names = rt.names
          /\ \A j \in 1..Len(stat.opens) :
                i # j => stat.opens[i].txn # stat.opens[j].txn
    /\ pc = "returned" => Len(stat.opens) = stat.fnCalls

\* No transaction but that of the last attempt was committed or aborted.
C5_DiscardedUntouched ==
    \A i \in 1..(Len(stat.opens) - 1) :
        stat.opens[i].txn \notin Range(stat.commits) \cup Range(stat.aborts)

\* RetryTxn returned after fn returned nil.
FnReturnedNil ==
    /\ pc = "returned"
    /\ cur.kind = "RetryTxn"
    /\ stat.fnCalls >= 1
    /\ stat.fnErr = Nil
    /\ ret.at # "open"

\* C5 as stated: every attempt opens a transaction with the given mode and
\* names; after k recoverable errors of fn and then nil, RetryTxn returns nil,
\* fn has run k+1 times and no discarded transaction was committed or aborted.
C5_ReturnsNil ==
    /\ cur.kind = "RetryTxn" => C5_Attempts
    /\ FnReturnedNil =>
          /\ ret.err = Nil
          /\ stat.fnCalls = stat.recov + 1
          /\ C5_DiscardedUntouched

\* C5, amended: as stated, but RetryTxn returns nil unless Commit fails with
\* an error that is not recoverable, which it returns.
C5_ReturnsCommit ==
    /\ cur.kind = "RetryTxn" => C5_Attempts
    /\ FnReturnedNil =>
          /\ \/ ret.err = Nil
             \/ /\ ret.err = stat.commitErr
                /\ ~IsTxnFinishedErr(stat.commitErr)
          /\ (stat.commitErr = Nil \/ IsTxnFinishedErr(stat.commitErr))
                => ret.err = Nil
          /\ stat.fnCalls = stat.recov + 1
          /\ C5_DiscardedUntouched

\* k = 1: a read-only RetryTxn returned nil after fn ran twice.
C5_Witness ==
    /\ FnReturnedNil
    /\ rt.mode = "readonly"
    /\ rt.names = <<"logs", "items">>
    /\ stat.recov = 1
    /\ stat.fnCalls = 2
    /\ ret.err = Nil

\* C6: when fn returns an error that is not recoverable, RetryTxn aborts that
\* attempt's transaction, whatever Abort returns, commits nothing, runs fn no
\* more and returns fn's error as it is.
C6_AbortOnError ==
    (cur.kind = "RetryTxn" /\ ~stat.fnErr.nil /\ ~IsTxnFinishedErr(stat.fnErr))
    => /\ pc = "returned"
       /\ ret.at = "fn"
       /\ ret.err = stat.fnErr
       /\ stat.aborts = <<rt.txn>>
       /\ stat.commits = << >>
       /\ rt.txn = stat.opens[Len(stat.opens)].txn
       /\ Len(stat.opens) = stat.fnCalls

\* fn's second run returned an error, Abort failed, and fn's error came back.
C6_Witness ==
    /\ pc = "returned"
    /\ cur.kind = "RetryTxn"
    /\ stat.fnErr = ErrSome
    /\ ret.err = ErrSome
    /\ stat.recov = 1
    /\ stat.abortErr = ErrTxnFinished

\* C7: when fn returns nil, RetryTxn commits that attempt's transaction once
\* and aborts nothing; a recoverable error of Commit gives a nil return with
\* no further run of fn, any other error of Commit is returned.
C7_CommitOnNil ==
    FnReturnedNil =>
        /\ ret.at = "commit"
        /\ stat.commits = <<rt.txn>>
        /\ stat.aborts = << >>
        /\ rt.txn = stat.opens[Len(stat.opens)].txn
        /\ ret.err = IF IsTxnFinishedErr(stat.commitErr) THEN Nil
                      ELSE stat.commitErr
        /\ stat.fnCalls = stat.recov + 1

\* The transaction finished while fn ran; Commit said so and RetryTxn
\* returned nil after one run of fn.
C7_Witness ==
    /\ FnReturnedNil
    /\ stat.commitErr = ErrTxnFinished
    /\ ret.err = Nil
    /\ stat.fnCalls = 1

\* What a run of the "put" unit of work with no failure leaves.
AfterPut == [rt.db0 EXCEPT ![rt.names[1]][FnKey] = FnVal]

\* C8: a RetryTxn whose unit of work is the idempotent write leaves the
\* records a run without failures leaves, however many attempts ended in a
\* recoverable error, and with such an error fn has run at least twice.
C8_Idempotent ==
    (pc = "returned" /\ cur.kind = "RetryTxn" /\ rt.fn = "put"
       /\ ret.err = Nil)
    => /\ db = AfterPut
       /\ stat.recov >= 1 => stat.fnCalls >= 2

\* The first attempt ended in a recoverable error, the second wrote.
C8_Witness ==
    /\ pc = "returned"
    /\ cur.kind = "RetryTxn"
    /\ rt.fn = "put"
    /\ ret.err = Nil
    /\ stat.recov = 1
    /\ stat.fnCalls = 2
    /\ db[rt.names[1]][FnKey] = FnVal

\* A call returned because the host reported an error that is not
\* recoverable for its data operation.
HostErrorReturned ==
    /\ pc = "returned"
    /\ cur.kind \in DataKinds \cup {"RetryTxn"}
    /\ ret.at \in {"fn", "result"}
    /\ ~stat.hostErr.nil
    /\ ~IsTxnFinishedErr(stat.hostErr)

\* C9 as stated: the error is returned unchanged after an abort of the
\* transaction, by RetryTxn and by every Durable data operation.
C9_AbortThenPropagate ==
    HostErrorReturned => (ret.err = stat.hostErr /\ stat.aborts # << >>)

\* C9, amended: the error is returned unchanged; RetryTxn aborts the
\* attempt's transaction first, a Durable data operation aborts nothing and
\* leaves its live transaction in place.
C9_Propagate ==
    HostErrorReturned =>
        /\ ret.err = stat.hostErr
        /\ cur.kind = "RetryTxn" => stat.aborts = <<rt.txn>>
        /\ cur.kind \in DataKinds =>
              /\ stat.aborts = << >>
              /\ dtTxn # 0
              /\ txns[dtTxn].state = "active"

\* AddKey of a key that is there: the constraint error came back and the
\* transaction is live.
C9_Witness ==
    /\ HostErrorReturned
    /\ cur.kind = "AddKey"
    /\ ret.err = ErrConstraint
    /\ txns[dtTxn].state = "active"

\* C10: an Await that registered its listeners returns one of three things,
\* and only after the event it reports: the request's result with a nil
\* error, after its success listener was notified; no value and the
\* request's error, after its failure listener was notified; no value and
\* the context's error, after the caller's context was cancelled.  It never
\* returns a value together with an error.
C10_OneOutcome ==
    (aPc = "done" /\ aRet.how # "listen") =>
        /\ \/ /\ aRet.err = Nil
              /\ "success" \in notes
              /\ rq.state = "done"
              /\ aRet.val = rq.result
           \/ /\ aRet.val = Null
              /\ "error" \in notes
              /\ aRet.err # Nil
              /\ aRet.err = rq.error
           \/ /\ aRet.val = Null
              /\ actx.parent
              /\ aRet.err = ErrCanceled
        /\ aRet.val # Null => aRet.err = Nil

\* The request succeeded with v1 and Await returned (v1, nil), though the
\* context was cancelled as well by then.
C10_Witness ==
    /\ aPc = "done"
    /\ notes = {"success"}
    /\ actx.parent
    /\ aRet = [val |-> "v1", err |-> Nil, how |-> "result"]
(***************************************************************************)
(* Durable Commit and Abort.                                               *)
(***************************************************************************)
\* A step that is a whole call of Commit or Abort on the Durable scope.
DurableEnds(kind) ==
    /\ pc = "idle"
    /\ dtMode # "none"
    /\ pc' = "returned"
    /\ cur'.kind = kind

\* C18: Commit or Abort on a scope that has no live transaction makes no
\* host call (no commit, no abort, the host's transactions and data as they
\* were), leaves the fields of the scope as they were and returns success:
\* Abort (false, nil), Commit nil.
C18_NoLiveTxn ==
    [][(dtTxn = 0 /\ (DurableEnds("Commit") \/ DurableEnds("Abort")))
         => /\ stat'.commits = << >>
            /\ stat'.aborts = << >>
            /\ UNCHANGED <<hostVars, dtVars>>
            /\ ret'.kind = cur'.kind
            /\ ret'.err = Nil
            /\ ret'.did = FALSE]_vars

C18_Witness ==
    /\ pc = "returned"
    /\ ret.kind = "Abort"
    /\ ret.at = "nil"
    /\ dtTxn = 0
    /\ stat.aborts = << >>

\* C19: with a live transaction, Abort calls the host's abort once, on that
\* transaction, and leaves the scope without a live transaction whatever
\* the outcome; it returns (true, nil) when the host aborted, (false, nil)
\* when the host reported a recoverable finish, (false, err) for any other
\* error err of the host.
C19_LiveAbort ==
    [][(dtTxn # 0 /\ DurableEnds("Abort"))
         => /\ stat'.aborts = <<dtTxn>>
            /\ stat'.commits = << >>
            /\ dtTxn' = 0
            /\ ret'.kind = "Abort"
            /\ (stat'.abortErr.nil <=> txns'[dtTxn].state = "aborted")
            /\ IF stat'.abortErr.nil
               THEN ret'.did /\ ret'.err = Nil
               ELSE IF IsTxnFinishedErr(stat'.abortErr)
               THEN ~ret'.did /\ ret'.err = Nil
               ELSE ~ret'.did /\ ret'.err = stat'.abortErr]_vars

C19_Witness ==
    /\ pc = "returned"
    /\ ret.kind = "Abort"
    /\ stat.aborts # << >>
    /\ IsTxnFinishedErr(stat.abortErr)
    /\ ret.err = Nil
    /\ ~ret.did
    /\ dtTxn = 0

\* C20: with a live transaction, Commit calls the host's commit once, on that
\* transaction, and leaves the scope without a live transaction whatever
\* the outcome; it returns nil when the host committed or reported a
\* recoverable finish, and the host's error as it is for any other failure.
C20_LiveCommit ==
    [][(dtTxn # 0 /\ DurableEnds("Commit"))
         => /\ stat'.commits = <<dtTxn>>
            /\ stat'.aborts = << >>
            /\ dtTxn' = 0
            /\ ret'.kind = "Commit"
            /\ (stat'.commitErr.nil <=> (txns[dtTxn].state = "active"
                                         /\ txns'[dtTxn].state = "committed"))
            /\ IF stat'.commitErr.nil \/ IsTxnFinishedErr(stat'.commitErr)
               THEN ret'.err = Nil
               ELSE ret'.err = stat'.commitErr]_vars

C20_Witness ==
    /\ pc = "returned"
    /\ ret.kind = "Commit"
    /\ stat.commits # << >>
    /\ ~stat.commitErr.nil
    /\ ~IsTxnFinishedErr(stat.commitErr)
    /\ ret.err = stat.commitErr
    /\ dtTxn = 0

(***************************************************************************)
(* Await: cancellation, listeners, panics.                                 *)
(***************************************************************************)
\* C11: when the wait context of Await is cancelled and Await returns for
\* that, it returns the context's cancellation error and no value, and the
\* return changes nothing of the host: the request stays as it is, its
\* transaction is neither aborted nor committed, the records are untouched.
\* (That the request can still complete and take effect afterwards is what
\* C11_Witness reaches.)
C11_CancelEndsOnlyWait ==
    [][(aPc = "select" /\ aPc' = "done" /\ aRet'.how = "ctx")
         => /\ AwaitCtxDone
            /\ aRet'.err = ErrCanceled
            /\ aRet'.val = Null
            /\ UNCHANGED <<hostVars, rq>>]_vars

\* Await returned the cancellation error while the request was pending; the
\* host then executed the request in its transaction, which is live and holds
\* the record written.
C11_Witness ==
    /\ aPc = "done"
    /\ aRet = [val |-> Null, err |-> ErrCanceled, how |-> "ctx"]
    /\ notes = {}
    /\ rq.state = "done"
    /\ rq.error = Nil
    /\ req.txn # 0
    /\ txns[req.txn].state = "active"
    /\ db["items"]["k1"] = "v1"

\* C12: whichever way Await returned (a result, the request's failure, the
\* cancellation of its context, an error of registering a listener, or after
\* a callback panicked), the success listener and the failure listener it
\* registered are both removed from the request eventually, and no listener
\* of it is registered once they are: none stays registered forever.
C12_ListenersRemoved ==
    (aPc = "done") ~> [](~lsn.success /\ ~lsn.error)

\* Await registered the failure listener, failed to register the success
\* listener and returned that error; the failure listener has been removed.
C12_Witness ==
    /\ aPc = "done"
    /\ aRet.how = "listen"
    /\ actx = [NoCtx EXCEPT !.await = TRUE]
    /\ rq.state = "pending"
    /\ lsn = NoLsn

\* C13: once a callback of the wait has panicked, the panic was caught (the
\* listener went on to cancel listen's context), an Abort of the request's
\* transaction was attempted exactly when the request has one, and the wait
\* has a failure for its result: the Await, when it has returned, returned a
\* non-nil error.
C13_PanicBecomesError ==
    "panic" \in notes =>
        /\ actx.inner
        /\ stat.aborts = IF req.txn = 0 THEN << >> ELSE <<req.txn>>
        /\ aPc = "done" => aRet.err # Nil

(***************************************************************************)
(* Iter over a cursor request.                                             *)
(***************************************************************************)
\* Every invocation of the callback so far made no movement call and
\* returned nil.
PlainCallback ==
    \A i \in DOMAIN iCalls : iCalls[i].moves = << >> /\ iCalls[i].err = Nil

\* Every invocation of the callback so far called Advance(2), and nothing
\* else, and returned nil.
Advance2Callback ==
    \A i \in DOMAIN iCalls :
        /\ iCalls[i].moves = <<[kind |-> "Advance", arg |-> 2]>>
        /\ iCalls[i].err = Nil

\* The key of the record number i (from 1) of the range in the direction of
\* the cursor: ascending for "next", descending for "prev".
InOrder(i) == IF hcur.dir = "next" THEN i ELSE hcur.n - i + 1

\* C14: with a callback that returns nil and makes no movement call, the
\* i-th invocation is on the i-th record of the range in the cursor's
\* direction (none skipped, none repeated), Iter never waits for a cursor
\* that is not moving (no stall), and when the host signals exhaustion Iter
\* returns nil, after one invocation for each record.
C14_PlainIteration ==
    PlainCallback =>
        /\ \A i \in DOMAIN iCalls : iCalls[i].key = InOrder(i)
        /\ Len(iCalls) <= hcur.n
        /\ iPc = "await" => hcur.moving
        /\ iPc = "returned" => iRet.how \in {"exhausted", "await", "continue"}
        /\ (iPc = "returned" /\ iRet.how = "exhausted")
              => (iRet.err = Nil /\ Len(iCalls) = hcur.n)

C14_Witness ==
    /\ iPc = "returned"
    /\ iRet = [err |-> Nil, how |-> "exhausted"]
    /\ hcur.n = 3
    /\ hcur.dir = "prev"
    /\ PlainCallback
    /\ Len(iCalls) = 3
    /\ iCalls[1].key = 3
    /\ iCalls[3].key = 1

\* C15: after an invocation that returned nil the host has received exactly
\* one movement call of the loop (its Continue) if the callback made none,
\* and none of the loop beside the callback's own otherwise; so with a
\* callback that calls Advance(2) every time, Iter over n records ends after
\* (n + 1) \div 2 invocations, the i-th on the record at place 2 * (i - 1).
C15_DefaultContinue ==
    /\ \A i \in DOMAIN iCalls :
          iCalls[i].err = Nil =>
              iCalls[i].calls = IF iCalls[i].moves = << >> THEN 1
                                ELSE Len(iCalls[i].moves)
    /\ Advance2Callback =>
          /\ \A i \in DOMAIN iCalls : iCalls[i].key = InOrder(2 * (i - 1) + 1)
          /\ Len(iCalls) <= (hcur.n + 1) \div 2
          /\ iPc = "await" => hcur.moving
          /\ (iPc = "returned" /\ iRet.how = "exhausted")
                => Len(iCalls) = (hcur.n + 1) \div 2

C15_Witness ==
    /\ iPc = "returned"
    /\ iRet = [err |-> Nil, how |-> "exhausted"]
    /\ hcur.n = 3
    /\ Advance2Callback
    /\ Len(iCalls) = 2
    /\ iCalls[2].calls = 1

\* C16: an invocation that returned ErrCursorStopIter is the last one; Iter
\* has returned nil, and the host received no movement call but those the
\* callback made itself.
C16_StopIter ==
    \A i \in DOMAIN iCalls :
        iCalls[i].err = ErrCursorStopIter =>
            /\ i = Len(iCalls)
            /\ iPc = "returned"
            /\ iRet = [err |-> Nil, how |-> "iter"]
            /\ iCalls[i].calls = Len(iCalls[i].moves)

\* The first invocation returned stop: one invocation, Iter returned nil and
\* the cursor, with records left, is at rest.
C16_Witness ==
    /\ Len(iCalls) = 1
    /\ iCalls[1].err = ErrCursorStopIter
    /\ iCalls[1].moves = << >>
    /\ hcur.n = 3
    /\ ~hcur.moving
    /\ iPc = "returned"
    /\ iRet.err = Nil

\* C17: an invocation that returned an error other than ErrCursorStopIter is
\* the last one; Iter has returned that same error, and the host received no
\* movement call but those the callback made itself (no Continue of the loop,
\* also when the callback moved the cursor).
C17_ErrorEnds ==
    \A i \in DOMAIN iCalls :
        iCalls[i].err \notin {Nil, ErrCursorStopIter} =>
            /\ i = Len(iCalls)
            /\ iPc = "returned"
            /\ iRet = [err |-> iCalls[i].err, how |-> "iter"]
            /\ iCalls[i].calls = Len(iCalls[i].moves)

\* The second invocation moved the cursor with Continue and returned an
\* error: Iter returned it, with the cursor still moving.
C17_Witness ==
    /\ Len(iCalls) = 2
    /\ iCalls[2].err = ErrSome
    /\ iCalls[2].moves = <<[kind |-> "Continue", arg |-> 0]>>
    /\ hcur.moving
    /\ iPc = "returned"
    /\ iRet.err = ErrSome

\* The message msg ends with the phrase: something, maybe nothing, and then
\* the phrase.
EndsWith(msg, phrase) ==
    \E i \in 0..Len(msg) : SubSeq(msg, i + 1, Len(msg)) = phrase

\* C23: IsTxnFinishedErr returns true exactly when the error is not nil and
\* its message ends with "The transaction has finished." or with "The
\* database connection is closing."; it returns false for nil and for every
\* other message.
C23_Classification ==
    cOut.done =>
        cOut.val = (/\ ~cErr.nil
                /\ \/ EndsWith(cErr.msg, TxnFinishedPhrase)
                   \/ EndsWith(cErr.msg, DBClosingPhrase))

\* A wrapped closing-connection error was classified, as recoverable.
C23_Witness ==
    /\ cOut.done
    /\ cOut.val
    /\ cErr = ErrDBClosing

\* C22: NewDurableTransaction called with an empty list of store names fails
\* at once with the configuration error: no Durable Scope comes to be, no
\* host transaction is opened, and nothing is tried again.
C22_EmptyNames ==
    (dtMode # "none" /\ dtNames = << >>) =>
        /\ pc \in {"start", "failed"}
        /\ ntx = 0
        /\ txns = [t \in 1..MaxTxns |-> NoTxn]
        /\ dtTxn = 0
        /\ dtStores = << >>
        /\ stat = NoStat
        /\ pc = "failed" =>
              ret = [kind |-> "New", val |-> ZeroVal, err |-> ErrNoStores,
                     did |-> FALSE, at |-> "config"]

\* The constructor was called with no names and has failed.
C22_Witness ==
    /\ pc = "failed"
    /\ dtNames = << >>
    /\ dtMode \in Modes
    /\ ret.err = ErrNoStores

\* C21: while a Durable Scope exists, GetObjectStore returns an error for
\* every name that was not given at construction, and for a name that was
\* the wrapper made for it at construction, whatever transactions have been
\* replaced since: no wrapper is replaced or removed, only its store handle
\* changes.
C21_FixedWrappers ==
    (dtMode # "none" /\ pc \notin {"start", "failed"}) =>
        \A n \in StoreNames :
           IF \E i \in 1..Len(dtNames) : dtNames[i] = n
           THEN \E i \in 1..Len(dtNames) :
                   /\ dtNames[i] = n
                   /\ GetObjectStore(n) = [err |-> Nil, store |-> i]
           ELSE GetObjectStore(n) = [err |-> ErrNotAvailable, store |-> 0]

\* The scope over "logs" and "items" is on its second transaction, both
\* wrappers rebound to it.
C21_Witness ==
    /\ dtNames = <<"logs", "items">>
    /\ dtTxn = 2
    /\ GetObjectStore("logs").store = 1
    /\ GetObjectStore("items").store = 2
    /\ \A n \in DOMAIN dtStores : dtStores[n].store = 2
    /\ pc = "idle"

\* C24: in every state of a Durable Scope with a live transaction, the store
\* handle of every wrapper is of that live transaction, also after
\* ensureTransaction returned an error partway through the rebinding.
C24_HandlesOfLive ==
    dtTxn # 0 => \A n \in DOMAIN dtStores : dtStores[n].store = dtTxn

\* C28: a Durable Scope stays usable after an explicit Commit or Abort.  The
\* call leaves the scope with its wrappers and no live transaction; a data
\* operation that starts without a live transaction opens a new one in the
\* mode and over the names of the construction, rebinds every wrapper to it
\* and issues its host call on it.
C28_UsableAfterEnd ==
    /\ (pc = "returned" /\ cur.kind \in {"Commit", "Abort"}) =>
          /\ dtTxn = 0
          /\ DOMAIN dtStores = Range(dtNames)
    /\ (pc \in {"d_call", "d_await"} /\ stat.recov = 0
        /\ Len(stat.opens) = 1) =>
          /\ dtTxn = stat.opens[1].txn
          /\ dtTxn = ntx
          /\ stat.opens[1].mode = dtMode
          /\ stat.opens[1].names = dtNames
          /\ \A n \in DOMAIN dtStores : dtStores[n].store = dtTxn
          /\ pc = "d_call" => txns[dtTxn].state = "active"
          /\ pc = "d_await" => req.txn = dtTxn

\* After an Abort that did abort the first transaction, a Put is awaited on
\* the second one, to which both wrappers are bound.
C28_Witness ==
    /\ pc = "d_await"
    /\ mixed
    /\ txns[1].state = "aborted"
    /\ stat.recov = 0
    /\ dtTxn = 2
    /\ req.txn = 2
    /\ dtNames = <<"logs", "items">>
    /\ \A n \in DOMAIN dtStores : dtStores[n].store = 2

\* C27: an Await registers one success listener and one failure listener on
\* its request: a wait that is under way or has ended registered exactly one
\* of each, and at no time has an Await registered more than one of a kind.
C27_OneListenerEach ==
    /\ adds.success <= 1
    /\ adds.error <= 1
    /\ lsn.success => adds.success = 1
    /\ lsn.error => adds.error = 1
    /\ (aPc = "select" \/ aRet.how \in {"result", "error", "ctx"}) =>
          adds = [success |-> 1, error |-> 1]

\* The Await returned the request's result, having registered one listener
\* of each kind; both are removed.
C27_Witness ==
    /\ aPc = "done"
    /\ aRet.how = "result"
    /\ adds = [success |-> 1, error |-> 1]
    /\ lsn = NoLsn

\* C30: an Await whose context is never cancelled returns eventually once
\* the host has delivered the request's success or error notification, also
\* when the notification was delivered before Await registered its
\* listeners.
C30_AwaitReturns ==
    ([]~actx.parent) => ((rq.state = "done") ~> (aPc = "done"))

\* C25: during a cursor traversal the success listener stays registered
\* across the success notifications of the cursor's request (it is not
\* removed after the first one), and no notification of a step arrives while
\* no success listener is registered.
C25_ListenerStays ==
    /\ (iPc \in {"await", "iter", "yield"} /\ Len(iCalls) > 0) =>
          (lsn.success \/ stale.success)
    /\ "missed" \notin notes

\* C26: a success callback registered through Listen is called at most once
\* for its registration, though the request of a cursor is notified again at
\* every step (no listener that was called is called again, and an Await is
\* handed at most one result); the invocations of the loop's callback follow
\* the notifications in the strict order of the traversal, one a step.
C26_OncePerRegistration ==
    /\ "again" \notin notes
    /\ Len(resultCh) + Len(errCh) <= 1
    /\ \A i \in 1..(Len(iCalls) - 1) :
          IF hcur.dir = "next" THEN iCalls[i].key < iCalls[i + 1].key
          ELSE iCalls[i].key > iCalls[i + 1].key

\* A traversal of three records has ended with the host's signal of
\* exhaustion: four notifications, each heard by the listener of its step.
C26_Witness ==
    /\ iPc = "returned"
    /\ iRet = [err |-> Nil, how |-> "exhausted"]
    /\ Len(iCalls) = 3
    /\ \A i \in 1..3 : iCalls[i].moves = << >>
    /\ notes = {}
    /\ stale = NoLsn

\* C29: in a Durable data operation the goroutine suspends only at the
\* await: between the ensure step and the host call no other goroutine
\* moves, so with several operations on one scope interleaved at their
\* awaits every host call was issued on a store handle of the transaction
\* that was the scope's live one at the moment of the call.
C29_CallOnLive ==
    /\ \A g \in 1..MaxGor :
          /\ gor[g].calls > 0 =>
                /\ gor[g].live # 0
                /\ gor[g].h = gor[g].live
          /\ gor[g].pc \in {"ensure", "call"} => running = g
    /\ running = 0 => \A g \in 1..MaxGor : gor[g].pc \in {"idle", "await"}

\* Two operations are suspended at their awaits, on requests of different
\* transactions: the second goroutine replaced the transaction while the
\* first one waited.
C29_Witness ==
    /\ gor[1].pc = "await"
    /\ gor[2].pc = "await"
    /\ gor[1].req = 1
    /\ gor[2].req = 2
    /\ dtTxn = 2

\* C37: for each of the four cursor directions d, parseCursorDirection of
\* d.String() is d: the direction a cursor reports is the direction it was
\* opened with.
C37_DirectionRoundTrip ==
    (dOut.done /\ dIn \in Directions) =>
        /\ dOut.val = dIn
        /\ parseCursorDirection(String(dIn)) = dIn

\* A cursor opened with prevunique has reported its direction.
C37_Witness ==
    /\ dOut.done
    /\ dIn = CursorPreviousUnique
    /\ dOut.str = "prevunique"

\* C38: every step of the iteration loop wraps the host's cursor in a fresh
\* Cursor, so the flag 'iterated' is false when the callback is invoked, and
\* a movement call of an earlier step never suppresses the default Continue of
\* a later step whose callback returned nil without moving the cursor.
C38_FreshFlag ==
    /\ iPc = "iter" => ~wrapCursor(hcur).iterated
    /\ \A i, j \in DOMAIN iCalls :
          (/\ i < j
           /\ iCalls[i].moves # << >>
           /\ iCalls[j].moves = << >>
           /\ iCalls[j].err = Nil) => iCalls[j].calls = 1

\* The first callback moved the cursor itself, the second did not and the
\* loop continued for it; the third is about to be invoked.
C38_Witness ==
    /\ Len(iCalls) = 2
    /\ iCalls[1].moves = <<[kind |-> "Continue", arg |-> 0]>>
    /\ iCalls[1].err = Nil
    /\ iCalls[2].moves = << >>
    /\ iCalls[2].err = Nil
    /\ iCalls[2].calls = 1
    /\ iPc = "iter"

\* C33: after the context passed to RetryTxn is cancelled, RetryTxn opens no
\* further transaction, even when the unit of work keeps returning a
\* recoverable-finish error.
C33_NoOpenAfterCancel ==
    (cur.kind = "RetryTxn" /\ rt.cancelled) =>
        \A i \in DOMAIN stat.opens : stat.opens[i].txn <= rt.ntxAt

\* C36: when opening the host transaction fails, RetryTxn returns that error
\* without invoking the unit of work and a Durable data operation returns it
\* without issuing its host call; neither opens again.
C36_OpenFailure ==
    [][/\ (pc = "r_open" /\ ntx' = ntx) =>
             /\ pc' = "returned"
             /\ ret'.kind = "RetryTxn"
             /\ ret'.err \in OpenFaults
             /\ ret'.at = "open"
             /\ stat' = stat
       /\ (pc = "d_ensure" /\ dtTxn = 0 /\ ntx' = ntx) =>
             /\ pc' = "returned"
             /\ ret'.kind = cur.kind
             /\ ret'.err \in OpenFaults
             /\ ret'.at = "open"
             /\ stat' = stat
             /\ dtTxn' = 0]_vars

\* The second attempt of a RetryTxn could not open its transaction, with the
\* error of a closing connection: the call returned it after one invocation
\* of the unit of work.
C36_Witness ==
    /\ pc = "returned"
    /\ ret.kind = "RetryTxn"
    /\ ret.at = "open"
    /\ ret.err = ErrDBClosing
    /\ Len(stat.opens) = 1
    /\ stat.fnCalls = 1

\* A data operation of the Durable Scope is in progress.
InDataOp == pc \in {"d_ensure", "d_call", "d_await"}
\* A data operation has returned what its last host call or Await gave.
DataOpEnded == pc = "returned" /\ cur.kind \in DataKinds /\ ret.at = "result"

\* C34 as stated: a data operation that met k recoverable errors and then
\* ended has opened exactly k transactions and issued k+1 host calls, and
\* every operation returns.
C34_AsStated ==
    /\ [](DataOpEnded =>
            /\ ~IsTxnFinishedErr(ret.err)
            /\ stat.calls = stat.recov + 1
            /\ Len(stat.opens) = stat.recov)
    /\ (InDataOp ~> pc = "returned")

\* C34, amended: a data operation that met k recoverable errors and then
\* ended with a success or an error that is not recoverable has issued k+1
\* host calls and has opened k transactions when the scope had a live
\* transaction at its start, k+1 when it had none; and every operation
\* returns.
C34_Counts ==
    /\ [](DataOpEnded =>
            /\ ~IsTxnFinishedErr(ret.err)
            /\ stat.calls = stat.recov + 1
            /\ Len(stat.opens) =
                  stat.recov + (IF stat.txn0 = 0 THEN 1 ELSE 0))
    /\ (InDataOp ~> pc = "returned")

\* An operation that began on a live transaction met one recoverable error,
\* opened one transaction, called the host twice and succeeded.
C34_Witness ==
    /\ DataOpEnded
    /\ ret.err = Nil
    /\ stat.txn0 # 0
    /\ stat.recov = 1
    /\ Len(stat.opens) = 1
    /\ stat.calls = 2

\* C35: while the scope's transaction reference is set, no step of a data
\* operation opens a host transaction or changes a wrapper's store handle,
\* and the reference changes only by being cleared for a retry; so an
\* operation that completes on the live transaction leaves all of them as
\* they were.  A transaction is opened only by the ensure step of an
\* operation that finds no live transaction.
C35_LiveUntouched ==
    [][/\ (InDataOp /\ dtTxn # 0) =>
             /\ ntx' = ntx
             /\ dtStores' = dtStores
             /\ \/ dtTxn' = dtTxn
                \/ dtTxn' = 0 /\ pc' = "d_ensure" /\ stat'.recov = stat.recov + 1
       /\ (InDataOp /\ ntx' # ntx) => (pc = "d_ensure" /\ dtTxn = 0)
       /\ (InDataOp /\ pc' = "returned" /\ ret'.at = "result") =>
             /\ dtTxn' = dtTxn
             /\ dtTxn # 0]_vars

\* An AddKey on a scope with a live transaction was refused by the host for
\* a key that exists: it returned after one host call, no transaction was
\* opened and the scope has the transaction it began with.
C35_Witness ==
    /\ DataOpEnded
    /\ ret.err = ErrConstraint
    /\ stat.txn0 # 0
    /\ stat.recov = 0
    /\ stat.opens = << >>
    /\ dtTxn = stat.txn0
    /\ \A n \in DOMAIN dtStores : dtStores[n].store = stat.txn0

\* C32: when the request's outcome was delivered before the wait context was
\* cancelled, Await returns that outcome and not the cancellation error, also
\* when the cancellation comes before the awaiting goroutine runs again.
C32_OutcomeFirst ==
    (aPc = "done" /\ actx.late) => aRet.how \in {"result", "error"}

\* The success listener sent the result, the context was cancelled before
\* Await's goroutine ran again, and Await returned the result.
C32_Witness ==
    /\ aPc = "done"
    /\ actx.late
    /\ actx.parent
    /\ "success" \in notes
    /\ aRet.how = "result"
    /\ aRet.err = Nil
    /\ aRet.val = rq.result

\* C31: an Iter over a finite range whose context is never cancelled
\* eventually returns, whatever the callback does before it returns: also
\* when it moves the cursor and then suspends, so that the notification of
\* the next position comes before the loop listens again.
C31_IterReturns == ([]~actx.parent) => <>(iPc = "returned")

====
